---- MODULE Spec2Model ----
(***************************************************************************)
(* Decomposition_App: the decomposition engines of src/modules             *)
(* (demographic.py, mathematical.py, regression.py) as pure operators,     *)
(* applied by one action per public method.                                 *)
(*                                                                          *)
(* A call is modelled in two steps: Init draws the arguments of the call    *)
(* (variable call), the action runs the method and stores what it returned  *)
(* or raised (variable ret).                                                *)
(***************************************************************************)
EXTENDS Integers, Sequences, FiniteSets, TLC

VARIABLES
    pc,     \* "ready": the call has not run yet; "done": it has returned or raised
    call,   \* the arguments of the call
    ret,    \* what the call returned ([kind |-> "ok", ...]) or raised ([kind |-> "error", ...])
    custom_formulas,    \* self.custom_formulas of the MathematicalDecomposition instance
    session_state       \* st.session_state of the application

vars == <<pc, call, ret, custom_formulas, session_state>>

NoReturn == [kind |-> "none"]

\* Python's None
None == "None"

\* src/app.py, lines 209-220: the session fields as the first run of the script sets them
InitialSession ==
    [current_data |-> None, results |-> <<>>, analysis_type |-> None,
     file_uploaded |-> FALSE, use_example |-> FALSE, analysis_history |-> <<>>]

(***************************************************************************)
(* Numbers.  A Python/numpy float is modelled by its real value, an exact  *)
(* rational <<n, d>> in lowest terms with d > 0, or by one of the IEEE      *)
(* specials: NaN = <<0, 0>>, +inf = <<1, 0>>, -inf = <<-1, 0>>.             *)
(***************************************************************************)
Abs(n) == IF n < 0 THEN -n ELSE n

Sgn(n) == IF n < 0 THEN -1 ELSE IF n > 0 THEN 1 ELSE 0

RECURSIVE GCD(_, _)
GCD(a, b) == IF b = 0 THEN a ELSE GCD(b, a % b)

Norm(n, d) ==
    IF d = 0 THEN <<Sgn(n), 0>>
    ELSE LET g == GCD(Abs(n), Abs(d))
             s == IF d < 0 THEN -1 ELSE 1
         IN  <<(s * n) \div g, (s * d) \div g>>

R(n) == <<n, 1>>

NaN == <<0, 0>>

IsNaN(a) == a = NaN

IsInf(a) == a[2] = 0 /\ a[1] # 0

IsFinite(a) == a[2] # 0

RNeg(a) == <<-a[1], a[2]>>

RAbs(a) == <<Abs(a[1]), a[2]>>

RAdd(a, b) ==
    IF IsNaN(a) \/ IsNaN(b) THEN NaN
    ELSE IF IsInf(a) /\ IsInf(b) THEN (IF a = b THEN a ELSE NaN)
    ELSE IF IsInf(a) THEN a
    ELSE IF IsInf(b) THEN b
    ELSE LET g == GCD(a[2], b[2])
         IN  Norm(a[1] * (b[2] \div g) + b[1] * (a[2] \div g), (a[2] \div g) * b[2])

RSub(a, b) == RAdd(a, RNeg(b))

RMul(a, b) ==
    IF IsNaN(a) \/ IsNaN(b) THEN NaN
    ELSE IF IsInf(a) \/ IsInf(b)
         THEN <<Sgn(a[1]) * Sgn(b[1]), 0>>      \* inf * 0 = NaN
    ELSE LET g1 == GCD(Abs(a[1]), b[2])
             g2 == GCD(Abs(b[1]), a[2])
         IN  Norm((a[1] \div g1) * (b[1] \div g2), (a[2] \div g2) * (b[2] \div g1))

\* numpy / IEEE division: x/0 is +-inf, 0/0 is NaN, nothing is raised
RDiv(a, b) ==
    IF IsNaN(a) \/ IsNaN(b) THEN NaN
    ELSE IF IsInf(b) THEN (IF IsInf(a) THEN NaN ELSE R(0))
    ELSE IF b[1] = 0 THEN <<Sgn(a[1]), 0>>
    ELSE RMul(a, Norm(Sgn(b[1]) * b[2], Abs(b[1])))

\* comparisons: every comparison with NaN is false
RLt(a, b) ==
    /\ ~IsNaN(a) /\ ~IsNaN(b)
    /\ IF IsInf(a) \/ IsInf(b)
       THEN (IF IsInf(a) /\ IsInf(b) THEN a[1] < b[1]
             ELSE IF IsInf(a) THEN a[1] < 0 ELSE b[1] > 0)
       ELSE a[1] * b[2] < b[1] * a[2]

RGt(a, b) == RLt(b, a)

RLe(a, b) == ~IsNaN(a) /\ ~IsNaN(b) /\ ~RLt(b, a)

\* Python's x != 0 (true for NaN)
NonZero(a) == a # R(0)

\* |a - b| <= 1/10^6, false when either side is NaN
Within1e6(a, b) == RLe(RAbs(RSub(a, b)), <<1, 1000000>>)

\* ndarray.sum(): the elements added from first to last
RECURSIVE SumSeq(_)
SumSeq(s) == IF s = <<>> THEN R(0) ELSE RAdd(SumSeq(SubSeq(s, 1, Len(s) - 1)), s[Len(s)])

NotNaN(x) == ~IsNaN(x)

\* pandas Series.sum(): missing values (NaN) are skipped, an empty sum is 0
pandas_sum(s) == SumSeq(SelectSeq(s, NotNaN))

(***************************************************************************)
(* Binary64.  Where a claim speaks of exact equality of computed floats,    *)
(* the arithmetic is modelled bit for bit: a finite double is               *)
(* (-1)^neg * m * 2^e with a mantissa m of exactly 53 bits, kept as a       *)
(* little-endian sequence of base-2^15 limbs; every operation rounds the    *)
(* exact result to the nearest double, ties to even.  Exponent overflow and *)
(* subnormals are outside the values used; -0.0 is not told from 0.0.       *)
(***************************************************************************)
Base == 2^15

Max(a, b) == IF a < b THEN b ELSE a

Min(a, b) == IF a < b THEN a ELSE b

RECURSIVE BigNorm(_)
BigNorm(a) ==
    IF a = <<>> THEN a
    ELSE IF a[Len(a)] = 0 THEN BigNorm(SubSeq(a, 1, Len(a) - 1))
    ELSE a

RECURSIVE BigFromInt(_)
BigFromInt(n) == IF n = 0 THEN <<>> ELSE <<n % Base>> \o BigFromInt(n \div Base)

Limb(a, i) == IF i <= Len(a) THEN a[i] ELSE 0

RECURSIVE AddFrom(_, _, _, _)
AddFrom(a, b, i, c) ==
    IF i > Max(Len(a), Len(b)) THEN (IF c = 0 THEN <<>> ELSE <<c>>)
    ELSE LET t == Limb(a, i) + Limb(b, i) + c
         IN  <<t % Base>> \o AddFrom(a, b, i + 1, t \div Base)

BigAdd(a, b) == AddFrom(a, b, 1, 0)

RECURSIVE SubFrom(_, _, _, _)
SubFrom(a, b, i, c) ==
    IF i > Len(a) THEN <<>>
    ELSE LET t == Limb(a, i) - Limb(b, i) - c
         IN  <<IF t < 0 THEN t + Base ELSE t>> \o SubFrom(a, b, i + 1, IF t < 0 THEN 1 ELSE 0)

\* a - b for a >= b
BigSub(a, b) == BigNorm(SubFrom(a, b, 1, 0))

RECURSIVE CmpAt(_, _, _)
CmpAt(a, b, i) ==
    IF i = 0 THEN 0
    ELSE IF a[i] # b[i] THEN (IF a[i] < b[i] THEN -1 ELSE 1)
    ELSE CmpAt(a, b, i - 1)

BigCmp(a, b) ==
    IF Len(a) # Len(b) THEN (IF Len(a) < Len(b) THEN -1 ELSE 1)
    ELSE CmpAt(a, b, Len(a))

RECURSIVE MulSmallFrom(_, _, _, _)
MulSmallFrom(a, k, i, c) ==
    IF i > Len(a) THEN (IF c = 0 THEN <<>> ELSE <<c>>)
    ELSE LET t == a[i] * k + c
         IN  <<t % Base>> \o MulSmallFrom(a, k, i + 1, t \div Base)

\* a * k for 0 <= k < Base
BigMulSmall(a, k) == IF k = 0 THEN <<>> ELSE MulSmallFrom(a, k, 1, 0)

BigShiftLimbs(a, n) == IF a = <<>> THEN a ELSE [i \in 1..n |-> 0] \o a

RECURSIVE BigMulFrom(_, _, _)
BigMulFrom(a, b, j) ==
    IF j > Len(b) THEN <<>>
    ELSE BigAdd(BigShiftLimbs(BigMulSmall(a, b[j]), j - 1), BigMulFrom(a, b, j + 1))

BigMul(a, b) == BigMulFrom(a, b, 1)

RECURSIVE IntBitLen(_)
IntBitLen(n) == IF n = 0 THEN 0 ELSE 1 + IntBitLen(n \div 2)

BigBitLen(a) == IF a = <<>> THEN 0 ELSE 15 * (Len(a) - 1) + IntBitLen(a[Len(a)])

\* a * 2^n
BigShl(a, n) == BigShiftLimbs(BigMulSmall(a, 2^(n % 15)), n \div 15)

\* a \div 2^n
BigShr(a, n) ==
    LET q == n \div 15
        r == n % 15
        d == IF q >= Len(a) THEN <<>> ELSE SubSeq(a, q + 1, Len(a))
    IN  BigNorm([i \in 1..Len(d) |->
                    (d[i] \div 2^r) + (Limb(d, i + 1) % 2^r) * 2^(15 - r)])

\* bit i of a, bit 0 the lowest
BigBit(a, i) == (Limb(a, i \div 15 + 1) \div 2^(i % 15)) % 2

\* a % 2^n # 0
BigLowNonZero(a, n) ==
    \E i \in 1..Len(a) :
        \/ i <= n \div 15 /\ a[i] # 0
        \/ i = n \div 15 + 1 /\ a[i] % 2^(n % 15) # 0

\* the value of a number of at most two limbs
BigToInt(a) == Limb(a, 1) + Limb(a, 2) * Base

\* <<r \div d, r % d>> from a quotient q that is off by a few units
RECURSIVE Corrected(_, _, _)
Corrected(r, d, q) ==
    LET p == BigMulSmall(d, q)
    IN  IF BigCmp(p, r) > 0 THEN Corrected(r, d, q - 1)
        ELSE LET rest == BigSub(r, p)
             IN  IF BigCmp(rest, d) >= 0 THEN Corrected(r, d, q + 1) ELSE <<q, rest>>

\* <<r \div d, r % d>> for d >= 2^14 and r < 2^14 * d: the quotient is estimated
\* from the leading 15 bits of d, then corrected
QuotRem(r, d) ==
    LET s == BigBitLen(d) - 15
        estimate == BigToInt(BigShr(r, s)) \div BigToInt(BigShr(d, s))
    IN  Corrected(r, d, estimate)

\* long division of r * 2^(14 n) by d, 14 bits of the quotient at a time, for
\* r < d; Q holds the digits found so far: <<quotient, remainder>>
RECURSIVE DivChunks(_, _, _, _)
DivChunks(r, d, n, Q) ==
    IF n = 0 THEN <<Q, r>>
    ELSE LET qr == QuotRem(BigMulSmall(r, 2^14), d)
         IN  DivChunks(qr[2], d, n - 1, BigAdd(BigMulSmall(Q, 2^14), BigFromInt(qr[1])))

\* <<(a * 2^56) \div b, (a * 2^56) % b # 0>> for two 53-bit mantissas
MantissaQuotient(a, b) ==
    LET ge == BigCmp(a, b) >= 0
        qr == DivChunks(IF ge THEN BigSub(a, b) ELSE a, b, 4, IF ge THEN <<1>> ELSE <<>>)
    IN  <<qr[1], qr[2] # <<>>>>

FZero == [cls |-> "zero", neg |-> FALSE, m |-> <<>>, e |-> 0]

FNaN == [cls |-> "nan", neg |-> FALSE, m |-> <<>>, e |-> 0]

FInf(neg) == [cls |-> "inf", neg |-> neg, m |-> <<>>, e |-> 0]

\* the double nearest to (-1)^neg * (m + f) * 2^e, where 0 <= f < 1 and
\* sticky tells whether f > 0 (then m has more than 54 bits)
Round(neg, m, e, sticky) ==
    LET len == BigBitLen(m)
        d == len - 53
    IN  IF len = 0 THEN FZero
        ELSE IF d <= 0 THEN [cls |-> "num", neg |-> neg, m |-> BigShl(m, -d), e |-> e + d]
        ELSE LET kept == BigShr(m, d)
                 guard == BigBit(m, d - 1) = 1
                 rest == sticky \/ BigLowNonZero(m, d - 1)
                 up == guard /\ (rest \/ BigBit(kept, 0) = 1)
                 k2 == IF up THEN BigAdd(kept, <<1>>) ELSE kept
             IN  IF BigBitLen(k2) > 53
                 THEN [cls |-> "num", neg |-> neg, m |-> BigShr(k2, 1), e |-> e + d + 1]
                 ELSE [cls |-> "num", neg |-> neg, m |-> k2, e |-> e + d]

\* float(n) for an int n
FromInt(n) == Round(n < 0, BigFromInt(Abs(n)), 0, FALSE)

FNeg(x) == IF x.cls \in {"zero", "nan"} THEN x ELSE [x EXCEPT !.neg = ~x.neg]

FAbs(x) == [x EXCEPT !.neg = FALSE]

FAdd(x, y) ==
    IF x.cls = "nan" \/ y.cls = "nan" THEN FNaN
    ELSE IF x.cls = "inf" /\ y.cls = "inf" THEN (IF x.neg = y.neg THEN x ELSE FNaN)
    ELSE IF x.cls = "inf" THEN x
    ELSE IF y.cls = "inf" THEN y
    ELSE IF x.cls = "zero" THEN y
    ELSE IF y.cls = "zero" THEN x
    ELSE LET e0 == Min(x.e, y.e)
             mx == BigShl(x.m, x.e - e0)
             my == BigShl(y.m, y.e - e0)
             c == BigCmp(mx, my)
         IN  IF x.neg = y.neg THEN Round(x.neg, BigAdd(mx, my), e0, FALSE)
             ELSE IF c = 0 THEN FZero
             ELSE IF c > 0 THEN Round(x.neg, BigSub(mx, my), e0, FALSE)
             ELSE Round(y.neg, BigSub(my, mx), e0, FALSE)

FSub(x, y) == FAdd(x, FNeg(y))

FMul(x, y) ==
    IF x.cls = "nan" \/ y.cls = "nan" THEN FNaN
    ELSE IF x.cls = "inf" \/ y.cls = "inf"
         THEN (IF x.cls = "zero" \/ y.cls = "zero" THEN FNaN ELSE FInf(x.neg # y.neg))
    ELSE IF x.cls = "zero" \/ y.cls = "zero" THEN FZero
    ELSE Round(x.neg # y.neg, BigMul(x.m, y.m), x.e + y.e, FALSE)

\* numpy / IEEE division: x/0 is +-inf, 0/0 is NaN, nothing is raised
FDiv(x, y) ==
    IF x.cls = "nan" \/ y.cls = "nan" THEN FNaN
    ELSE IF x.cls = "inf" THEN (IF y.cls = "inf" THEN FNaN ELSE FInf(x.neg # y.neg))
    ELSE IF y.cls = "inf" THEN FZero
    ELSE IF y.cls = "zero" THEN (IF x.cls = "zero" THEN FNaN ELSE FInf(x.neg))
    ELSE IF x.cls = "zero" THEN FZero
    ELSE LET qs == MantissaQuotient(x.m, y.m)
         IN  Round(x.neg # y.neg, qs[1], x.e - y.e - 56, qs[2])

\* comparisons: every comparison with NaN is false
FLt(x, y) ==
    /\ x.cls # "nan" /\ y.cls # "nan"
    /\ x # y
    /\ LET d == FSub(x, y) IN d.cls \in {"num", "inf"} /\ d.neg

FGt(x, y) == FLt(y, x)

FLe(x, y) == x.cls # "nan" /\ y.cls # "nan" /\ ~FLt(y, x)

\* the double a decimal literal or a number of the dataset stands for: the
\* double nearest to the rational
FromRational(r) ==
    IF r[2] = 0 THEN (IF r[1] = 0 THEN FNaN ELSE FInf(r[1] < 0))
    ELSE IF r[2] = 1 THEN FromInt(r[1])
    ELSE FDiv(FromInt(r[1]), FromInt(r[2]))

(***************************************************************************)
(* src/modules/demographic.py                                               *)
(***************************************************************************)
BoundColumns == <<"group", "w1", "y1", "w2", "y2">>

\* _validate_data without the test that the column exists
RECURSIVE Demographic_validate_data_NullsOnly(_, _, _)
Demographic_validate_data_NullsOnly(df, columns, i) ==
    IF i > Len(columns) THEN [kind |-> "ok"]
    ELSE IF columns[i] \in df.nulls
         THEN [kind |-> "error", type |-> "ValueError", what |-> "missing_values",
               column |-> columns[i]]
    ELSE Demographic_validate_data_NullsOnly(df, columns, i + 1)

\* _validate_data: the first bound column, in argument order, that is absent
\* or holds a missing value raises ValueError; None otherwise
RECURSIVE Demographic_validate_data(_, _, _)
Demographic_validate_data(df, columns, i) ==
    IF i > Len(columns) THEN [kind |-> "ok"]
    ELSE IF columns[i] \notin df.columns
         THEN [kind |-> "error", type |-> "ValueError", what |-> "missing_column",
               column |-> columns[i]]
    ELSE IF columns[i] \in df.nulls
         THEN [kind |-> "error", type |-> "ValueError", what |-> "missing_values",
               column |-> columns[i]]
    ELSE Demographic_validate_data(df, columns, i + 1)

Column(rows, c) == [i \in 1..Len(rows) |-> rows[i][c]]

Products(ws, vs) == [i \in 1..Len(ws) |-> RMul(vs[i], ws[i])]

\* np.average(values, weights=weights): raises ZeroDivisionError when the
\* weights sum to 0 (a NaN sum is not equal to 0 and raises nothing)
_weighted_mean(weights, values) ==
    LET scl == SumSeq(weights)
    IN  IF scl = R(0) THEN [kind |-> "error", type |-> "ZeroDivisionError"]
        ELSE [kind |-> "ok", value |-> RDiv(SumSeq(Products(weights, values)), scl)]

Hundred == 100

\* abs(total - 100) > 0.1
OutOfTolerance(total) == RGt(RAbs(RSub(total, R(Hundred))), <<1, 10>>)

\* the weight column left as it is given
NormalizeWeights_Skipped(ws, normalize) == ws

\* lines 45-53: one period's weight column after the optional rescaling
NormalizeWeights(ws, normalize) ==
    LET total == pandas_sum(ws)
    IN  IF normalize /\ OutOfTolerance(total)
        THEN [i \in 1..Len(ws) |-> RMul(RDiv(ws[i], total), R(Hundred))]
        ELSE ws

\* one row of group_results with the weights taken as fractions of 1
GroupResult_Fractions(g, w1, y1, w2, y2, delta_Y) ==
    LET effect_composition == RMul(RDiv(RAdd(y2, y1), R(2)), RSub(w2, w1))
        effect_behavior == RMul(RDiv(RAdd(w2, w1), R(2)), RSub(y2, y1))
        total_effect == RAdd(effect_composition, effect_behavior)
    IN  [group |-> g, w1 |-> w1, y1 |-> y1, w2 |-> w2, y2 |-> y2,
         effect_composition |-> effect_composition,
         effect_behavior |-> effect_behavior,
         total_contribution |-> total_effect,
         contribution_percent |->
             IF NonZero(delta_Y) THEN RMul(RDiv(total_effect, delta_Y), R(Hundred))
             ELSE R(0),
         contribution_abs |-> RAbs(total_effect)]

\* lines 65-91: one row of group_results
GroupResult(g, w1, y1, w2, y2, delta_Y) ==
    LET effect_composition ==
            RDiv(RMul(RDiv(RAdd(y2, y1), R(2)), RSub(w2, w1)), R(Hundred))
        effect_behavior ==
            RDiv(RMul(RDiv(RAdd(w2, w1), R(2)), RSub(y2, y1)), R(Hundred))
        total_effect == RAdd(effect_composition, effect_behavior)
    IN  [group |-> g, w1 |-> w1, y1 |-> y1, w2 |-> w2, y2 |-> y2,
         effect_composition |-> effect_composition,
         effect_behavior |-> effect_behavior,
         total_contribution |-> total_effect,
         contribution_percent |->
             IF NonZero(delta_Y) THEN RMul(RDiv(total_effect, delta_Y), R(Hundred))
             ELSE R(0),
         contribution_abs |-> RAbs(total_effect)]

\* The objects analyze works on: heap maps a reference to the dataset it
\* names; "df" is the caller's dataset.
\* data = df with no copy made: both names refer to the caller's dataset
Copy_Alias(heap, ref) == [ref |-> ref, heap |-> heap]

\* data = df.copy(): a new dataset with the same columns and rows
Copy(heap, ref) == [ref |-> "data", heap |-> ("data" :> heap[ref]) @@ heap]

\* data[c] = values: the column of the dataset that data names is replaced
SetColumn(copied, c, values) ==
    [ref |-> copied.ref,
     heap |-> [copied.heap EXCEPT ![copied.ref].rows =
                  [i \in 1..Len(@) |-> [@[i] EXCEPT ![c] = values[i]]]]]

\* lines 45-53 on the heap: the weight column c of data after the optional rescaling
Normalized(copied, c, normalize) ==
    SetColumn(copied, c, NormalizeWeights(Column(copied.heap[copied.ref].rows, c), normalize))

\* the caller's dataset once analyze has returned or raised
CallersDataset(df, normalize) ==
    IF Demographic_validate_data(df, BoundColumns, 1).kind = "error" THEN df
    ELSE Normalized(Normalized(Copy([df |-> df], "df"), "w1", normalize),
                    "w2", normalize).heap["df"]

\* metadata['variables']: the names of the bound columns
Variables == [c \in {"group", "w1", "y1", "w2", "y2"} |-> c]

Demographic_analyze(df, normalize) ==
    LET valid == Demographic_validate_data(df, BoundColumns, 1)
        w1s == NormalizeWeights(Column(df.rows, "w1"), normalize)
        w2s == NormalizeWeights(Column(df.rows, "w2"), normalize)
        y1s == Column(df.rows, "y1")
        y2s == Column(df.rows, "y2")
        m1 == _weighted_mean(w1s, y1s)
        m2 == _weighted_mean(w2s, y2s)
    IN  IF valid.kind = "error" THEN valid
        ELSE IF m1.kind = "error" THEN m1
        ELSE IF m2.kind = "error" THEN m2
        ELSE
        LET Y1 == m1.value
            Y2 == m2.value
            delta_Y == RSub(Y2, Y1)
            group_results ==
                [i \in 1..Len(df.rows) |->
                    GroupResult(df.rows[i].group, w1s[i], y1s[i], w2s[i], y2s[i], delta_Y)]
            total_composition == pandas_sum(Column(group_results, "effect_composition"))
            total_behavior == pandas_sum(Column(group_results, "effect_behavior"))
            total_contrib == pandas_sum(Column(group_results, "total_contribution"))
        IN  [kind |-> "ok",
             group_results |-> group_results,
             aggregate_results |->
                [Y1 |-> Y1, Y2 |-> Y2, total_change |-> delta_Y,
                 composition_effect |-> total_composition,
                 behavior_effect |-> total_behavior,
                 composition_percent |->
                     IF NonZero(delta_Y)
                     THEN RMul(RDiv(total_composition, delta_Y), R(Hundred)) ELSE R(0),
                 behavior_percent |->
                     IF NonZero(delta_Y)
                     THEN RMul(RDiv(total_behavior, delta_Y), R(Hundred)) ELSE R(0),
                 verification |-> RAbs(RSub(total_contrib, delta_Y))],
             metadata |-> [num_groups |-> Len(df.rows), variables |-> Variables,
                           normalized |-> normalize]]

(***************************************************************************)
(* src/modules/mathematical.py                                              *)
(*                                                                          *)
(* The values of a call are Python numbers: a division by zero that the     *)
(* code does not guard raises ZeroDivisionError, the guarded ones give NaN. *)
(***************************************************************************)
Formula(name, expression, variables) ==
    [name |-> name, expression |-> expression, variables |-> variables]

\* the library of predefined formulas (class attribute FORMULAS)
FORMULAS ==
    [ratio |-> Formula("Ratio simple", "Y = A / B", <<"A", "B">>),
     product |-> Formula("Produit de ratios", "Y = (G * k) / P", <<"G", "k", "P">>),
     product_simple |-> Formula("Produit simple", "Y = A * B", <<"A", "B">>),
     demographic_dividend |->
         Formula("Dividende demographique", "Y = (G/A) * (A/P)", <<"G", "A", "P">>),
     cobb_douglas |->
         Formula("Fonction Cobb-Douglas", "Y = A * K^alpha * L^(1-alpha)",
                 <<"A", "K", "L", "alpha">>)]

ZeroDivisionError == [kind |-> "error", type |-> "ZeroDivisionError"]

AttributeError(attr) == [kind |-> "error", type |-> "AttributeError", attribute |-> attr]

Half(a) == RDiv(a, R(2))

\* (effect / delta * 100) if delta != 0 else 0
Contribution(effect, delta) ==
    IF NonZero(delta) THEN RMul(RDiv(effect, delta), R(Hundred)) ELSE R(0)

\* Y = A / B
_decompose_ratio(p1, p2) ==
    LET A1 == p1["A"]  B1 == p1["B"]
        A2 == p2["A"]  B2 == p2["B"]
        Y1 == IF NonZero(B1) THEN RDiv(A1, B1) ELSE NaN
        Y2 == IF NonZero(B2) THEN RDiv(A2, B2) ELSE NaN
        delta_Y == RSub(Y2, Y1)
        A_bar == Half(RAdd(A1, A2))
        B_bar == Half(RAdd(B1, B2))
        Y_bar == Half(RAdd(Y1, Y2))
        effect_A == RMul(RDiv(R(1), B_bar), RSub(A2, A1))
        effect_B == RNeg(RMul(RDiv(A_bar, RMul(B_bar, B_bar)), RSub(B2, B1)))
        total_effect == RAdd(effect_A, effect_B)
    IN  IF B_bar = R(0) THEN ZeroDivisionError
        ELSE [kind |-> "ok", formula |-> "Y = A / B",
              values |-> [period1 |-> [A |-> A1, B |-> B1, Y |-> Y1],
                          period2 |-> [A |-> A2, B |-> B2, Y |-> Y2]],
              changes |-> [delta_A |-> RSub(A2, A1), delta_B |-> RSub(B2, B1),
                           delta_Y |-> delta_Y],
              effects |-> [effect_A |-> effect_A, effect_B |-> effect_B,
                           total_effect |-> total_effect],
              contributions |-> [A |-> Contribution(effect_A, delta_Y),
                                 B |-> Contribution(effect_B, delta_Y)],
              averages |-> [A_bar |-> A_bar, B_bar |-> B_bar, Y_bar |-> Y_bar]]

\* Y = (G * k) / P
_decompose_product_ratio(p1, p2) ==
    LET G1 == p1["G"]  k1 == p1["k"]  P1 == p1["P"]
        G2 == p2["G"]  k2 == p2["k"]  P2 == p2["P"]
        Y1 == IF NonZero(P1) THEN RDiv(RMul(G1, k1), P1) ELSE NaN
        Y2 == IF NonZero(P2) THEN RDiv(RMul(G2, k2), P2) ELSE NaN
        delta_Y == RSub(Y2, Y1)
        G_bar == Half(RAdd(G1, G2))
        k_bar == Half(RAdd(k1, k2))
        P_bar == Half(RAdd(P1, P2))
        Y_bar == Half(RAdd(Y1, Y2))
        effect_G == RMul(RDiv(k_bar, P_bar), RSub(G2, G1))
        effect_k == RMul(RDiv(G_bar, P_bar), RSub(k2, k1))
        effect_P == RNeg(RMul(RDiv(RMul(G_bar, k_bar), RMul(P_bar, P_bar)), RSub(P2, P1)))
        total_effect == RAdd(RAdd(effect_G, effect_k), effect_P)
    IN  IF P_bar = R(0) THEN ZeroDivisionError
        ELSE [kind |-> "ok", formula |-> "Y = (G * k) / P",
              values |-> [period1 |-> [G |-> G1, k |-> k1, P |-> P1, Y |-> Y1],
                          period2 |-> [G |-> G2, k |-> k2, P |-> P2, Y |-> Y2]],
              changes |-> [delta_G |-> RSub(G2, G1), delta_k |-> RSub(k2, k1),
                           delta_P |-> RSub(P2, P1), delta_Y |-> delta_Y],
              effects |-> [effect_G |-> effect_G, effect_k |-> effect_k,
                           effect_P |-> effect_P, total_effect |-> total_effect],
              averages |-> [G_bar |-> G_bar, k_bar |-> k_bar, P_bar |-> P_bar,
                            Y_bar |-> Y_bar]]

\* Y = pi * alpha with pi = G/A (productivity), alpha = A/P (age structure)
_decompose_demographic_dividend(p1, p2) ==
    LET G1 == p1["G"]  A1 == p1["A"]  P1 == p1["P"]
        G2 == p2["G"]  A2 == p2["A"]  P2 == p2["P"]
        pi1 == IF NonZero(A1) THEN RDiv(G1, A1) ELSE NaN
        pi2 == IF NonZero(A2) THEN RDiv(G2, A2) ELSE NaN
        alpha1 == IF NonZero(P1) THEN RDiv(A1, P1) ELSE NaN
        alpha2 == IF NonZero(P2) THEN RDiv(A2, P2) ELSE NaN
        Y1 == RMul(pi1, alpha1)
        Y2 == RMul(pi2, alpha2)
        pi_bar == Half(RAdd(pi1, pi2))
        alpha_bar == Half(RAdd(alpha1, alpha2))
        effect_pi == RMul(alpha_bar, RSub(pi2, pi1))
        effect_alpha == RMul(pi_bar, RSub(alpha2, alpha1))
        total_effect == RAdd(effect_pi, effect_alpha)
    IN  [kind |-> "ok", formula |-> "Y = (G/A) * (A/P) = pi * alpha",
         components |-> [period1 |-> [pi |-> pi1, alpha |-> alpha1, Y |-> Y1],
                         period2 |-> [pi |-> pi2, alpha |-> alpha2, Y |-> Y2]],
         raw_values |-> [period1 |-> [G |-> G1, A |-> A1, P |-> P1],
                         period2 |-> [G |-> G2, A |-> A2, P |-> P2]],
         effects |-> [productivity_effect |-> effect_pi,
                      structure_effect |-> effect_alpha,
                      total_effect |-> total_effect]]

\* np.log of a Python number.  The model draws the arguments of cobb_douglas
\* from 0 and the powers of two, and measures every logarithm in units of ln 2,
\* so np.log(2^k) is the exact number k; np.log(0) is -inf, np.log(x < 0) is NaN.
RECURSIVE Log2(_)
Log2(n) == IF n <= 1 THEN 0 ELSE 1 + Log2(n \div 2)

np_log(x) ==
    IF IsNaN(x) \/ x[1] < 0 THEN NaN
    ELSE IF x[1] = 0 THEN <<-1, 0>>
    ELSE IF IsInf(x) THEN x
    ELSE R(Log2(x[1]) - Log2(x[2]))

\* Y = A * K^alpha * L^(1-alpha); alpha is read from period 1 only
_decompose_cobb_douglas(p1, p2) ==
    LET A1 == p1["A"]  K1 == p1["K"]  L1 == p1["L"]  alpha == p1["alpha"]
        A2 == p2["A"]  K2 == p2["K"]  L2 == p2["L"]
        lnY1 == RAdd(RAdd(np_log(A1), RMul(alpha, np_log(K1))),
                     RMul(RSub(R(1), alpha), np_log(L1)))
        lnY2 == RAdd(RAdd(np_log(A2), RMul(alpha, np_log(K2))),
                     RMul(RSub(R(1), alpha), np_log(L2)))
        delta_lnY == RSub(lnY2, lnY1)
        effect_A == RSub(np_log(A2), np_log(A1))
        effect_K == RMul(alpha, RSub(np_log(K2), np_log(K1)))
        effect_L == RMul(RSub(R(1), alpha), RSub(np_log(L2), np_log(L1)))
        total_effect == RAdd(RAdd(effect_A, effect_K), effect_L)
    IN  [kind |-> "ok", formula |-> "Y = A * K^alpha * L^(1-alpha)",
         log_changes |-> [delta_lnY |-> delta_lnY, delta_lnA |-> effect_A,
                          delta_lnK |-> RSub(np_log(K2), np_log(K1)),
                          delta_lnL |-> RSub(np_log(L2), np_log(L1))],
         effects |-> [technology_effect |-> effect_A, capital_effect |-> effect_K,
                      labor_effect |-> effect_L, total_effect |-> total_effect],
         contributions |-> [technology |-> Contribution(effect_A, delta_lnY),
                            capital |-> Contribution(effect_K, delta_lnY),
                            labor |-> Contribution(effect_L, delta_lnY)],
         alpha_value |-> alpha]

ValueError(what, name) ==
    [kind |-> "error", type |-> "ValueError", what |-> what, column |-> name]

\* a value that is neither an int nor a float (a string, None)
NotANumber == <<0, 0, 0>>

\* isinstance(x, (int, float))
IsNumber(x) == x # NotANumber

\* analyze without its validation step: the lookups data[var][period] of
\* the extraction raise KeyError for a missing variable or period, and the
\* arithmetic raises TypeError for a value that is not a number
RECURSIVE Mathematical_validate_data_Unchecked(_, _, _, _)
Mathematical_validate_data_Unchecked(data, variables, periods, i) ==
    IF i > Len(variables) THEN [kind |-> "ok"]
    ELSE IF variables[i] \notin DOMAIN data \/ {periods[1], periods[2]} \ DOMAIN data[variables[i]] # {}
         THEN [kind |-> "error", type |-> "KeyError", column |-> variables[i]]
         ELSE IF ~IsNumber(data[variables[i]][periods[1]]) \/ ~IsNumber(data[variables[i]][periods[2]])
         THEN [kind |-> "error", type |-> "TypeError", column |-> variables[i]]
         ELSE Mathematical_validate_data_Unchecked(data, variables, periods, i + 1)

\* _validate_data: every variable of the formula has a numeric value for both periods
RECURSIVE Mathematical_validate_data(_, _, _, _)
Mathematical_validate_data(data, variables, periods, i) ==
    IF i > Len(variables) THEN [kind |-> "ok"]
    ELSE LET var == variables[i] IN
         IF var \notin DOMAIN data THEN ValueError("missing_variable", var)
         ELSE IF periods[1] \notin DOMAIN data[var] THEN ValueError("missing_period1", var)
         ELSE IF periods[2] \notin DOMAIN data[var] THEN ValueError("missing_period2", var)
         ELSE IF ~IsNumber(data[var][periods[1]]) THEN ValueError("not_numeric1", var)
         ELSE IF ~IsNumber(data[var][periods[2]]) THEN ValueError("not_numeric2", var)
         ELSE Mathematical_validate_data(data, variables, periods, i + 1)

Range(f) == {f[x] : x \in DOMAIN f}

BuiltIn == DOMAIN FORMULAS

\* MathematicalDecomposition.analyze; registered is self.custom_formulas
Mathematical_analyze(registered, formula_type, data, periods) ==
    IF formula_type \notin BuiltIn /\ formula_type \notin DOMAIN registered
    THEN ValueError("unknown_formula", formula_type)
    ELSE
    LET formula == IF formula_type \in BuiltIn THEN FORMULAS[formula_type]
                   ELSE registered[formula_type]
        valid == Mathematical_validate_data(data, formula.variables, periods, 1)
        values_p1 == [var \in Range(formula.variables) |-> data[var][periods[1]]]
        values_p2 == [var \in Range(formula.variables) |-> data[var][periods[2]]]
    IN  IF valid.kind = "error" THEN valid
        ELSE IF formula_type = "ratio" THEN _decompose_ratio(values_p1, values_p2)
        ELSE IF formula_type = "product" THEN _decompose_product_ratio(values_p1, values_p2)
        ELSE IF formula_type = "product_simple"
             THEN AttributeError("_decompose_product")      \* the method does not exist
        ELSE IF formula_type = "demographic_dividend"
             THEN _decompose_demographic_dividend(values_p1, values_p2)
        ELSE IF formula_type = "cobb_douglas"
             THEN _decompose_cobb_douglas(values_p1, values_p2)
        ELSE AttributeError("_decompose_generic")           \* the method does not exist

IndexError == [kind |-> "error", type |-> "IndexError"]

\* An expression is the sequence of its tokens: <<"Y", "=", "A", "*", "B">>
\* stands for "Y = A*B".
\* expression.split('='): the pieces of the expression between the "=" signs
RECURSIVE Split(_, _, _)
Split(expression, i, piece) ==
    IF i > Len(expression) THEN <<piece>>
    ELSE IF expression[i] = "=" THEN <<piece>> \o Split(expression, i + 1, <<>>)
    ELSE Split(expression, i + 1, Append(piece, expression[i]))

\* the tokens the pattern [A-Za-z][A-Za-z0-9_]* matches
Identifiers == {"Y", "A", "B", "K"}

IsIdentifier(token) == token \in Identifiers

\* re.findall(r'[A-Za-z][A-Za-z0-9_]*', expr_str), in the order of the text
FindAll(expr_str) == SelectSeq(expr_str, IsIdentifier)

\* f"custom_{n}"
CustomId(n) == <<"custom_1", "custom_2", "custom_3", "custom_4", "custom_5", "custom_6">>[n]

\* name or f"custom_{len(self.custom_formulas) + 1}": None and "" give the numbered id
FormulaId(registered, name) ==
    IF name = "" THEN CustomId(Cardinality(DOMAIN registered) + 1) ELSE name

\* create_custom_formula once the right-hand side is known: the formula is
\* stored under its id, replacing a formula of the same id, and the id returned
Register(registered, expression, formula_id, symbols) ==
    [registry |-> (formula_id :> Formula(formula_id, expression, symbols)) @@ registered,
     ret |-> [kind |-> "ok", formula_id |-> formula_id]]

\* MathematicalDecomposition.create_custom_formula: the new registry and what
\* the call returned or raised
create_custom_formula(registered, expression, name) ==
    IF Len(Split(expression, 1, <<>>)) < 2
    THEN [registry |-> registered, ret |-> IndexError]
    ELSE Register(registered, expression, FormulaId(registered, name),
                  FindAll(Split(expression, 1, <<>>)[2]))

(***************************************************************************)
(* src/modules/regression.py                                                *)
(*                                                                          *)
(* A dataset has one predictor column x, the outcome column y and the group *)
(* column, whose two categories are stored as the numbers 0 and 1 (dtype    *)
(* int64) or as two labels (dtype object).  A row holds the position of its *)
(* category (1 for group1, 2 for group2).                                   *)
(***************************************************************************)
Predictors == <<"x">>

GroupVar == "group"

\* df[df[group_var] == group].copy()
GroupData(df, k) == SelectSeq(df.rows, LAMBDA row : row.group = k)

\* the group column as numbers, for a dataset whose group dtype is int64
GroupCode(row) == R(row.group - 1)

ColumnOf(data, c) ==
    [i \in 1..Len(data) |-> IF c = GroupVar THEN GroupCode(data[i]) ELSE data[i][c]]

\* pandas Series.mean(): NaN skipped, NaN for no value at all
pandas_mean(s) == RDiv(pandas_sum(s), R(Len(SelectSeq(s, NotNaN))))

HasNaN(s) == \E i \in 1..Len(s) : IsNaN(s[i])

\* sum of products of deviations from the means
Sxy(xs, ys) ==
    RSub(SumSeq(Products(xs, ys)),
         RMul(R(Len(xs)), RMul(pandas_mean(xs), pandas_mean(ys))))

\* add_constant(..., has_constant='skip') adds no constant column when a column
\* is already constant and not zero: np.ptp(s) == 0.0 and np.any(s != 0.0)
IsConstantColumn(s) ==
    /\ ~HasNaN(s)
    /\ \A i, j \in 1..Len(s) : s[i] = s[j]
    /\ \E i \in 1..Len(s) : s[i] # R(0)

\* OLS(y, X).fit().params for X = [x] (no constant column): least squares
\* through the origin
ParamsOrigin(xs, ys) == <<RDiv(SumSeq(Products(xs, ys)), SumSeq(Products(xs, xs)))>>

\* params for X = [const, x]; for a column x of zeros the pseudo-inverse gives
\* the solution of least norm, slope 0
ParamsSimple(xs, ys) ==
    IF Sxy(xs, xs) = R(0) THEN <<pandas_mean(ys), R(0)>>
    ELSE LET slope == RDiv(Sxy(xs, ys), Sxy(xs, xs))
         IN  <<RSub(pandas_mean(ys), RMul(slope, pandas_mean(xs))), slope>>

\* params for X = [x, g] (no constant column, x constant c # 0, g in {0, 1}):
\* the fit is the two group means, y = (mean1 / c) x + (mean2 - mean1) g
ParamsOriginPooled(data) ==
    LET d1 == SelectSeq(data, LAMBDA row : row.group = 1)
        d2 == SelectSeq(data, LAMBDA row : row.group = 2)
        m1 == pandas_mean(ColumnOf(d1, "y"))
        m2 == pandas_mean(ColumnOf(d2, "y"))
    IN  <<RDiv(m1, data[1].x), RSub(m2, m1)>>

\* params for X = [const, x, g], g in {0, 1} with both categories present
ParamsPooled(data) ==
    LET d1 == SelectSeq(data, LAMBDA row : row.group = 1)
        d2 == SelectSeq(data, LAMBDA row : row.group = 2)
        x1 == ColumnOf(d1, "x")
        x2 == ColumnOf(d2, "x")
        y1 == ColumnOf(d1, "y")
        y2 == ColumnOf(d2, "y")
        m1 == pandas_mean(y1)
        m2 == pandas_mean(y2)
        within == RAdd(Sxy(x1, x1), Sxy(x2, x2))
    IN  IF within # R(0)
        THEN \* full rank: the slope of x is the within-group slope
             LET b == RDiv(RAdd(Sxy(x1, y1), Sxy(x2, y2)), within)
                 a1 == RSub(m1, RMul(b, pandas_mean(x1)))
                 a2 == RSub(m2, RMul(b, pandas_mean(x2)))
             IN  <<a1, b, RSub(a2, a1)>>
        ELSE \* x = p + q g is a combination of const and g: the pseudo-inverse
             \* gives the solution of least norm among a + b p = m1, b q + c = d
             LET p == x1[1]
                 q == RSub(x2[1], x1[1])
                 d == RSub(m2, m1)
                 b == RDiv(RAdd(RMul(m1, p), RMul(d, q)),
                           RAdd(R(1), RAdd(RMul(p, p), RMul(q, q))))
             IN  <<RSub(m1, RMul(b, p)), b, RSub(d, RMul(b, q))>>

\* dict(zip(names, values)): as many entries as the shorter of the two
Zip(names, values) ==
    LET n == IF Len(names) < Len(values) THEN Len(names) ELSE Len(values)
    IN  [names |-> SubSeq(names, 1, n), values |-> SubSeq(values, 1, n)]

\* dict.get(key, default)
Get(dict, key, default) ==
    IF \E i \in 1..Len(dict.names) : dict.names[i] = key
    THEN dict.values[CHOOSE i \in 1..Len(dict.names) : dict.names[i] = key]
    ELSE default

\* the except branch of _run_regression: np.corrcoef(x, y)[0,1] * (y.std() / x.std()),
\* that is Sxy / Sxx when both columns vary, NaN otherwise
NaiveSlope(xs, ys) ==
    IF HasNaN(xs) \/ HasNaN(ys) THEN NaN
    ELSE IF Sxy(xs, xs) = R(0) \/ Sxy(ys, ys) = R(0) THEN NaN
    ELSE RDiv(Sxy(xs, ys), Sxy(xs, xs))

TypeError == [kind |-> "error", type |-> "TypeError"]

\* _run_regression(data, outcome, predictors); dtype is the dtype of the group
\* column.  OLS raises for a predictor column of dtype object and for a NaN
\* in a predictor; the except branch then builds substitute coefficients,
\* and np.corrcoef raises on a column of labels.
_run_regression(data, dtype, predictors) ==
    LET ys == ColumnOf(data, "y")
        xs == ColumnOf(data, "x")
        pooled == Len(predictors) = 2
        names == <<"Intercept">> \o predictors
        labels == pooled /\ dtype = "object"
        raised == labels \/ HasNaN(xs)
    IN  IF ~raised
        THEN LET gs == ColumnOf(data, GroupVar)
                 skip == IsConstantColumn(xs) \/ (pooled /\ IsConstantColumn(gs))
                 params == IF pooled
                           THEN (IF skip THEN ParamsOriginPooled(data) ELSE ParamsPooled(data))
                           ELSE (IF skip THEN ParamsOrigin(xs, ys) ELSE ParamsSimple(xs, ys))
             IN  [kind |-> "ok", coef |-> Zip(names, params), fitted |-> TRUE]
        ELSE IF labels /\ Len(data) > 1 THEN TypeError
        ELSE LET slope(c) == IF Len(data) > 1 THEN NaiveSlope(ColumnOf(data, c), ys) ELSE R(0)
             IN  [kind |-> "ok",
                  coef |-> [names |-> names,
                            values |-> <<pandas_mean(ys)>> \o
                                       [i \in 1..Len(predictors) |-> slope(predictors[i])]],
                  fitted |-> FALSE]

\* np.dot of two vectors: ValueError when the shapes are not aligned
Dot(a, b) ==
    IF Len(a) # Len(b) THEN ValueError("shapes_not_aligned", "")
    ELSE [kind |-> "ok", value |-> SumSeq(Products(a, b))]

\* a - b for numpy arrays of length 0 or 1: a length-0 operand gives length 0
ArraySub(a, b) ==
    IF Len(a) = 0 \/ Len(b) = 0 THEN <<>> ELSE [i \in 1..Len(a) |-> RSub(a[i], b[i])]

Methods == <<"oaxaca", "oaxaca_reverse", "cotton", "neumark">>

Percent(part, delta_Y) ==
    IF NonZero(delta_Y) THEN RMul(RDiv(part, delta_Y), R(Hundred)) ELSE R(0)

\* lines 110-117 with the test on the method left out
DetailedContributions_AnyMethod(method, X1_mean, X2_mean, beta1, beta2) ==
    [i \in 1..Len(Predictors) |->
        [predictor |-> Predictors[i],
         explained |-> RMul(RSub(X2_mean[i], X1_mean[i]), Get(beta1, Predictors[i], R(0))),
         unexplained |-> RMul(X2_mean[i], RSub(Get(beta2, Predictors[i], R(0)),
                                                Get(beta1, Predictors[i], R(0))))]]

\* lines 110-117
DetailedContributions(method, X1_mean, X2_mean, beta1, beta2) ==
    IF method = "oaxaca"
    THEN [i \in 1..Len(Predictors) |->
            [predictor |-> Predictors[i],
             explained |-> RMul(RSub(X2_mean[i], X1_mean[i]), Get(beta1, Predictors[i], R(0))),
             unexplained |-> RMul(X2_mean[i], RSub(Get(beta2, Predictors[i], R(0)),
                                                    Get(beta1, Predictors[i], R(0))))]]
    ELSE <<>>

\* alpha2 - alpha1 + t, t being a np.dot that may have raised
Shifted(alpha1, alpha2, t) ==
    IF t.kind = "error" THEN t
    ELSE [kind |-> "ok", value |-> RAdd(RSub(alpha2, alpha1), t.value)]

\* (alpha2 - alpha1) + t1 + t2
Symmetric(alpha1, alpha2, t1, t2) ==
    IF t1.kind = "error" THEN t1
    ELSE IF t2.kind = "error" THEN t2
    ELSE [kind |-> "ok", value |-> RAdd(RAdd(RSub(alpha2, alpha1), t1.value), t2.value)]

\* lines 80-108: the explained and the unexplained difference of a method,
\* dX being X2_mean - X1_mean; beta_star is read by cotton and neumark only:
\* (alpha2 - alpha1) + np.dot(X1_mean, b2 - beta_star) + np.dot(X2_mean, beta_star - b1)
Difference(method, dX, X1_mean, X2_mean, alpha1, alpha2, b1, b2, beta_star) ==
    [explained |->
        CASE method = "oaxaca" -> Dot(dX, b1)
          [] method = "oaxaca_reverse" -> Dot(dX, b2)
          [] OTHER -> Dot(dX, beta_star),
     unexplained |->
        CASE method = "oaxaca" -> Shifted(alpha1, alpha2, Dot(X2_mean, ArraySub(b2, b1)))
          [] method = "oaxaca_reverse" ->
                Shifted(alpha1, alpha2, Dot(X1_mean, ArraySub(b2, b1)))
          [] OTHER -> Symmetric(alpha1, alpha2, Dot(X1_mean, ArraySub(b2, beta_star)),
                                Dot(X2_mean, ArraySub(beta_star, b1)))]

\* lines 107-142: the error of an unknown method, or the returned dictionary
Decomposition(method, X1_mean, X2_mean, beta1, beta2, delta_Y, Y1_mean, Y2_mean, pooled_model, d) ==
    IF \A i \in 1..Len(Methods) : Methods[i] # method
    THEN ValueError("unknown_method", method)
    ELSE IF pooled_model.kind = "error" THEN pooled_model
    ELSE IF d.explained.kind = "error" THEN d.explained
    ELSE IF d.unexplained.kind = "error" THEN d.unexplained
    ELSE [kind |-> "ok",
          method |-> method,
          means |-> [group1 |-> [Y |-> Y1_mean, X |-> X1_mean],
                     group2 |-> [Y |-> Y2_mean, X |-> X2_mean]],
          regression_results |-> [group1 |-> beta1, group2 |-> beta2],
          decomposition |->
             [total_difference |-> delta_Y,
              explained_difference |-> d.explained.value,
              unexplained_difference |-> d.unexplained.value,
              explained_percent |-> Percent(d.explained.value, delta_Y),
              unexplained_percent |-> Percent(d.unexplained.value, delta_Y)],
          detailed_contributions |->
             DetailedContributions(method, X1_mean, X2_mean, beta1, beta2)]

\* lines 93 and 102: the reference coefficients of cotton and of neumark
BetaStar(method, n1, n2, b1, b2, pooled_model) ==
    IF method = "cotton"
    THEN (IF Len(b1) = 0 \/ Len(b2) = 0 THEN <<>>
          ELSE <<RDiv(RAdd(RMul(R(n1), b1[1]), RMul(R(n2), b2[1])), R(n1 + n2))>>)
    ELSE IF Len(pooled_model.coef.values) <= 2 THEN <<>>
    ELSE SubSeq(pooled_model.coef.values, 2, Len(pooled_model.coef.values) - 1)

\* lines 67-108: coefficients, intercepts, total difference and the method
Coefficients(method, n1, n2, X1_mean, X2_mean, beta1, beta2, Y1_mean, Y2_mean, pooled_model) ==
    Decomposition(method, X1_mean, X2_mean, beta1, beta2, RSub(Y2_mean, Y1_mean),
                  Y1_mean, Y2_mean, pooled_model,
                  Difference(method, ArraySub(X2_mean, X1_mean), X1_mean, X2_mean,
                             Get(beta1, "Intercept", R(0)), Get(beta2, "Intercept", R(0)),
                             Tail(beta1.values), Tail(beta2.values),
                             BetaStar(method, n1, n2, Tail(beta1.values),
                                      Tail(beta2.values), pooled_model)))

\* lines 59-100: the regressions and the means of the two groups
Regressions(df, method, group1_data, group2_data) ==
    Coefficients(method, Len(group1_data), Len(group2_data),
                 <<pandas_mean(ColumnOf(group1_data, "x"))>>,
                 <<pandas_mean(ColumnOf(group2_data, "x"))>>,
                 _run_regression(group1_data, df.dtype, Predictors).coef,
                 _run_regression(group2_data, df.dtype, Predictors).coef,
                 pandas_mean(ColumnOf(group1_data, "y")),
                 pandas_mean(ColumnOf(group2_data, "y")),
                 IF method = "neumark"
                 THEN _run_regression(group1_data \o group2_data, df.dtype,
                                      Predictors \o <<GroupVar>>)
                 ELSE [kind |-> "ok"])

\* oaxaca_blinder(df, outcome, predictors, group_var, group1, group2, method)
\* called with both groups named and present in the dataset
oaxaca_blinder(df, method) == Regressions(df, method, GroupData(df, 1), GroupData(df, 2))

(***************************************************************************)
(* The same methods in binary64, operation by operation in the order the   *)
(* code evaluates them.  Sums over a column add the elements from first to  *)
(* last, which is what numpy and pandas do for fewer than 8 elements.       *)
(***************************************************************************)
F100 == FromInt(Hundred)

F2 == FromInt(2)

FNon0(x) == x.cls # "zero"

FColumn(rows, c) == [i \in 1..Len(rows) |-> FromRational(rows[i][c])]

RECURSIVE np_sum64(_)
np_sum64(s) == IF s = <<>> THEN FZero ELSE FAdd(np_sum64(SubSeq(s, 1, Len(s) - 1)), s[Len(s)])

FNotNaN(x) == x.cls # "nan"

\* a sum that leaves out the last element
pandas_sum64_ButLast(s) ==
    LET t == SelectSeq(s, FNotNaN) IN np_sum64(SubSeq(t, 1, Len(t) - 1))

\* pandas Series.sum(): NaN skipped
pandas_sum64(s) == np_sum64(SelectSeq(s, FNotNaN))

\* np.average(values, weights=weights), scl being the sum of the weights
np_average64(weights, values, scl) ==
    IF scl.cls = "zero" THEN [kind |-> "error", type |-> "ZeroDivisionError"]
    ELSE [kind |-> "ok",
          value |-> FDiv(np_sum64([i \in 1..Len(weights) |-> FMul(values[i], weights[i])]),
                         scl)]

_weighted_mean64(weights, values) == np_average64(weights, values, np_sum64(weights))

\* lines 49-50: the column rescaled when its total is further than 0.1 from 100
Rescaled64(ws, normalize, total) ==
    IF normalize /\ FGt(FAbs(FSub(total, F100)), FromRational(<<1, 10>>))
    THEN [i \in 1..Len(ws) |-> FMul(FDiv(ws[i], total), F100)]
    ELSE ws

\* lines 45-53
NormalizeWeights64(ws, normalize) == Rescaled64(ws, normalize, pandas_sum64(ws))

\* (effect / delta * 100) if delta != 0 else 0
Contribution64(effect, delta) ==
    IF FNon0(delta) THEN FMul(FDiv(effect, delta), F100) ELSE FZero

\* lines 80-91: the row of a group in group_results
GroupRow64(g, w1, y1, w2, y2, delta_Y, effect_composition, effect_behavior, total_effect) ==
    [group |-> g, w1 |-> w1, y1 |-> y1, w2 |-> w2, y2 |-> y2,
     effect_composition |-> effect_composition,
     effect_behavior |-> effect_behavior,
     total_contribution |-> total_effect,
     contribution_percent |-> Contribution64(total_effect, delta_Y),
     contribution_abs |-> FAbs(total_effect)]

\* line 75: total_effect = effect_composition + effect_behavior
GroupEffects64(g, w1, y1, w2, y2, delta_Y, effect_composition, effect_behavior) ==
    GroupRow64(g, w1, y1, w2, y2, delta_Y, effect_composition, effect_behavior,
               FAdd(effect_composition, effect_behavior))

\* lines 65-91
GroupResult64(g, w1, y1, w2, y2, delta_Y) ==
    GroupEffects64(g, w1, y1, w2, y2, delta_Y,
                   FDiv(FMul(FDiv(FAdd(y2, y1), F2), FSub(w2, w1)), F100),
                   FDiv(FMul(FDiv(FAdd(w2, w1), F2), FSub(y2, y1)), F100))

\* lines 105-135: the percentages and the returned dictionary
Results64(df, normalize, Y1, Y2, delta_Y, group_results, total_composition, total_behavior, total_contrib) ==
    [kind |-> "ok",
     group_results |-> group_results,
     aggregate_results |->
        [Y1 |-> Y1, Y2 |-> Y2, total_change |-> delta_Y,
         composition_effect |-> total_composition,
         behavior_effect |-> total_behavior,
         composition_percent |-> Contribution64(total_composition, delta_Y),
         behavior_percent |-> Contribution64(total_behavior, delta_Y),
         verification |-> FAbs(FSub(total_contrib, delta_Y))],
     metadata |-> [num_groups |-> Len(df.rows), variables |-> Variables,
                   normalized |-> normalize]]

\* lines 93-99: the totals of the three effect columns
Totals64(df, normalize, Y1, Y2, delta_Y, group_results) ==
    Results64(df, normalize, Y1, Y2, delta_Y, group_results,
              pandas_sum64(Column(group_results, "effect_composition")),
              pandas_sum64(Column(group_results, "effect_behavior")),
              pandas_sum64(Column(group_results, "total_contribution")))

\* lines 62-91: the rows of the groups
Rows64(df, normalize, w1s, y1s, w2s, y2s, Y1, Y2, delta_Y) ==
    Totals64(df, normalize, Y1, Y2, delta_Y,
             [i \in 1..Len(df.rows) |->
                 GroupResult64(df.rows[i].group, w1s[i], y1s[i], w2s[i], y2s[i], delta_Y)])

\* lines 55-60: the weighted means and their difference
Means64(df, normalize, w1s, y1s, w2s, y2s, m1, m2) ==
    IF m1.kind = "error" THEN m1
    ELSE IF m2.kind = "error" THEN m2
    ELSE Rows64(df, normalize, w1s, y1s, w2s, y2s, m1.value, m2.value,
                FSub(m2.value, m1.value))

\* lines 42-57: the columns after the optional normalisation
Weights64(df, normalize, w1s, y1s, w2s, y2s) ==
    Means64(df, normalize, w1s, y1s, w2s, y2s,
            _weighted_mean64(w1s, y1s), _weighted_mean64(w2s, y2s))

\* lines 39-53: nothing is computed when the validation raised
Validated64(df, normalize, valid) ==
    IF valid.kind = "error" THEN valid
    ELSE Weights64(df, normalize,
                   NormalizeWeights64(FColumn(df.rows, "w1"), normalize),
                   FColumn(df.rows, "y1"),
                   NormalizeWeights64(FColumn(df.rows, "w2"), normalize),
                   FColumn(df.rows, "y2"))

Demographic_analyze64(df, normalize) ==
    Validated64(df, normalize, Demographic_validate_data(df, BoundColumns, 1))

\* line 121 with the sign of the effect lost
effect_B64_Unsigned(A_bar, B_bar, B1, B2) ==
    FMul(FDiv(A_bar, FMul(B_bar, B_bar)), FSub(B2, B1))

\* line 121: -(A_bar / (B_bar ** 2)) * (B2 - B1); B_bar ** 2 is the rounded
\* product B_bar * B_bar
effect_B64(A_bar, B_bar, B1, B2) ==
    FMul(FNeg(FDiv(A_bar, FMul(B_bar, B_bar))), FSub(B2, B1))

\* lines 123-153: the contributions and the returned dictionary
RatioResult64(A1, B1, A2, B2, Y1, Y2, A_bar, B_bar, delta_Y, effect_A, effect_B) ==
    IF B_bar.cls = "zero" THEN ZeroDivisionError
    ELSE [kind |-> "ok", formula |-> "Y = A / B",
          values |-> [period1 |-> [A |-> A1, B |-> B1, Y |-> Y1],
                      period2 |-> [A |-> A2, B |-> B2, Y |-> Y2]],
          changes |-> [delta_A |-> FSub(A2, A1), delta_B |-> FSub(B2, B1),
                       delta_Y |-> delta_Y],
          effects |-> [effect_A |-> effect_A, effect_B |-> effect_B,
                       total_effect |-> FAdd(effect_A, effect_B)],
          contributions |-> [A |-> Contribution64(effect_A, delta_Y),
                             B |-> Contribution64(effect_B, delta_Y)],
          averages |-> [A_bar |-> A_bar, B_bar |-> B_bar,
                        Y_bar |-> FDiv(FAdd(Y1, Y2), F2)]]

\* lines 112-121: the change of Y and the two effects
RatioEffects64(A1, B1, A2, B2, Y1, Y2, A_bar, B_bar) ==
    RatioResult64(A1, B1, A2, B2, Y1, Y2, A_bar, B_bar, FSub(Y2, Y1),
                  FMul(FDiv(FromInt(1), B_bar), FSub(A2, A1)),
                  effect_B64(A_bar, B_bar, B1, B2))

\* lines 109-116: the values of Y and the averages
RatioValues64(A1, B1, A2, B2) ==
    RatioEffects64(A1, B1, A2, B2,
                   IF FNon0(B1) THEN FDiv(A1, B1) ELSE FNaN,
                   IF FNon0(B2) THEN FDiv(A2, B2) ELSE FNaN,
                   FDiv(FAdd(A1, A2), F2), FDiv(FAdd(B1, B2), F2))

\* Y = A / B (_decompose_ratio)
_decompose_ratio64(p1, p2) ==
    RatioValues64(FromRational(p1["A"]), FromRational(p1["B"]),
                  FromRational(p2["A"]), FromRational(p2["B"]))

\* analyze('ratio', data, periods): validation, then _decompose_ratio
Mathematical_analyze_ratio64(data, periods) ==
    LET valid == Mathematical_validate_data(data, FORMULAS["ratio"].variables, periods, 1)
        p1 == [v \in DOMAIN data |-> data[v][periods[1]]]
        p2 == [v \in DOMAIN data |-> data[v][periods[2]]]
    IN  IF valid.kind = "error" THEN valid ELSE _decompose_ratio64(p1, p2)

(***************************************************************************)
(* The datasets of the demographic specification                            *)
(***************************************************************************)
MaxRows == 2

GroupNames == <<"A", "B", "C", "D">>

\* A weight column is a column of multiples (1 or 2) of one unit.  With unit 50
\* a column can sum to exactly 100; with unit 33.35 it can sum to 100.05, inside
\* the tolerance of the rescaling without being 100; with unit 0 it sums to 0.
Multiples == {1, 2}

\* (y1, y2) of a group: unchanged, rising, falling
ValuePairs == {<<R(1), R(1)>>, <<R(1), R(3)>>, <<R(3), R(1)>>}

UnitPairs ==
    {<<R(50), R(50)>>, <<<<667, 20>>, <<667, 20>>>>, <<R(50), <<667, 20>>>>,
     <<R(0), R(50)>>, <<R(50), R(0)>>, <<R(0), R(0)>>}

NumericRows == [m1 : Multiples, m2 : Multiples, y : ValuePairs]

Weighted(numeric, units) ==
    [i \in 1..Len(numeric) |->
        [w1 |-> RMul(R(numeric[i].m1), units[1]), y1 |-> numeric[i].y[1],
         w2 |-> RMul(R(numeric[i].m2), units[2]), y2 |-> numeric[i].y[2]]]

\* the two rows of the documented demographic scenario
ScenarioRows ==
    <<[w1 |-> R(40), y1 |-> R(10), w2 |-> R(60), y2 |-> R(10)],
      [w1 |-> R(60), y1 |-> R(20), w2 |-> R(40), y2 |-> R(20)]>>

Labelled(numeric) ==
    [i \in 1..Len(numeric) |->
        [group |-> GroupNames[i], w1 |-> numeric[i].w1, y1 |-> numeric[i].y1,
         w2 |-> numeric[i].w2, y2 |-> numeric[i].y2]]

SeqsUpTo(S, n) == UNION {[1..k -> S] : k \in 0..n}

AllColumns == {BoundColumns[i] : i \in 1..Len(BoundColumns)}

DataFrame(columns, nulls, rows) == [columns |-> columns, nulls |-> nulls, rows |-> rows]

(***************************************************************************)
(* The calls of the mathematical specification                              *)
(***************************************************************************)
Periods == <<"2015", "2020">>

PeriodSet == Range(Periods)

MathVals == {R(0), R(1), R(2), R(4)}

\* cobb_douglas: 0 and powers of two (see np_log)
CobbVals == {R(0), R(1), R(4)}

AlphaVals == {<<1, 3>>, <<1, 2>>}

\* the documented ratio scenario: A 100 -> 120, B 10 -> 12
ScenarioRatio ==
    [v \in {"A", "B"} |->
        IF v = "A" THEN ("2015" :> R(100) @@ "2020" :> R(120))
        ELSE ("2015" :> R(10) @@ "2020" :> R(12))]

CompleteData(formula_type) ==
    IF formula_type = "cobb_douglas"
    THEN {base @@ ("alpha" :> a) :
            base \in [{"A", "K", "L"} -> [PeriodSet -> CobbVals]],
            a \in [PeriodSet -> AlphaVals]}
    ELSE [Range(FORMULAS[formula_type].variables) -> [PeriodSet -> MathVals]]

\* data with a variable, a period or a numeric value missing
IncompleteData ==
    {("A" :> ("2015" :> R(1) @@ "2020" :> R(2))),
     ("A" :> ("2015" :> R(1) @@ "2020" :> R(2)) @@ "B" :> ("2020" :> R(2))),
     ("A" :> ("2015" :> R(1) @@ "2020" :> R(2)) @@ "B" :> ("2015" :> R(2))),
     ("A" :> ("2015" :> NotANumber @@ "2020" :> R(2)) @@ "B" :> ("2015" :> R(1) @@ "2020" :> R(2))),
     ("A" :> ("2015" :> R(1) @@ "2020" :> NotANumber) @@ "B" :> ("2015" :> R(1) @@ "2020" :> R(2)))}

NoCustomFormulas == <<>>

MathCalls ==
    {[kind |-> "mathematical", formula_type |-> f, data |-> d] :
        f \in {"ratio"}, d \in CompleteData("ratio") \cup {ScenarioRatio} \cup IncompleteData}
    \cup UNION {{[kind |-> "mathematical", formula_type |-> f, data |-> d] :
                    d \in CompleteData(f)} :
                f \in {"product", "product_simple", "demographic_dividend", "cobb_douglas"}}
    \cup {[kind |-> "mathematical", formula_type |-> f, data |-> ScenarioRatio] :
            f \in {"Ratio", "custom_1"}}

(***************************************************************************)
(* The calls of the regression specification                                *)
(***************************************************************************)
MaxObs == 2

\* the observations (x, y) a group is drawn from
Observations ==
    <<[x |-> R(0), y |-> R(0)], [x |-> R(0), y |-> R(1)],
      [x |-> R(1), y |-> R(0)], [x |-> R(1), y |-> R(1)],
      [x |-> R(2), y |-> R(0)], [x |-> R(2), y |-> R(1)]>>

\* a group of 1..MaxObs observations; the order of the rows plays no part in
\* the method, so one order stands for all
Samples ==
    {s \in SeqsUpTo(1..Len(Observations), MaxObs) :
        Len(s) > 0 /\ \A i \in 1..(Len(s) - 1) : s[i] <= s[i + 1]}

\* the rows of one group; missing: the predictor of its first row is NaN
GroupRows(s, k, missing) ==
    [i \in 1..Len(s) |->
        [group |-> k,
         x |-> IF missing /\ i = 1 THEN NaN ELSE Observations[s[i]].x,
         y |-> Observations[s[i]].y]]

MethodNames == Range(Methods) \cup {"pooled"}

(***************************************************************************)
(* The calls of the binary64 specification                                  *)
(***************************************************************************)
\* rows (w1, y1, w2, y2) whose effects are not dyadic fractions
RoundingRows ==
    <<[w1 |-> R(10), y1 |-> R(1), w2 |-> R(10), y2 |-> R(2)],
      [w1 |-> R(10), y1 |-> R(2), w2 |-> R(10), y2 |-> R(1)],
      [w1 |-> R(10), y1 |-> R(1), w2 |-> R(30), y2 |-> R(2)],
      [w1 |-> R(40), y1 |-> R(10), w2 |-> R(60), y2 |-> R(10)]>>

\* the datasets made of one to three different rows of RoundingRows, in any order
Arrangements ==
    {s \in UNION {[1..k -> 1..Len(RoundingRows)] : k \in 1..(Len(RoundingRows) - 1)} :
        \A i, j \in 1..Len(s) : i # j => s[i] # s[j]}

Arranged(s) ==
    [i \in 1..Len(s) |->
        [group |-> GroupNames[s[i]],
         w1 |-> RoundingRows[s[i]].w1, y1 |-> RoundingRows[s[i]].y1,
         w2 |-> RoundingRows[s[i]].w2, y2 |-> RoundingRows[s[i]].y2]]

RatioNumerators == {R(1), R(3), R(100), R(120)}

RatioDenominators == {R(0), R(3), R(10), R(12)}

InitDemographic ==
    /\ pc = "ready"
    /\ \E n \in BOOLEAN :
        \/ \E numeric \in SeqsUpTo(NumericRows, MaxRows), units \in UnitPairs :
            call = [kind |-> "demographic", normalize |-> n,
                    df |-> DataFrame(AllColumns, {}, Labelled(Weighted(numeric, units)))]
        \/ \E cs \in SUBSET AllColumns :
            \E ns \in SUBSET (cs \cap {"w1", "y1"}) :
                call = [kind |-> "demographic", normalize |-> n,
                        df |-> DataFrame(cs, ns, Labelled(ScenarioRows))]
    /\ ret = NoReturn
    /\ custom_formulas = NoCustomFormulas
    /\ session_state = InitialSession

InitRegression ==
    /\ pc = "ready"
    /\ \E s1 \in Samples, s2 \in Samples, m \in MethodNames,
          dt \in {"int64", "object"}, missing \in BOOLEAN :
            call = [kind |-> "regression", method |-> m,
                    df |-> [dtype |-> dt,
                            rows |-> GroupRows(s1, 1, missing) \o GroupRows(s2, 2, FALSE)]]
    /\ ret = NoReturn
    /\ custom_formulas = NoCustomFormulas
    /\ session_state = InitialSession

InitMathematical ==
    /\ pc = "ready"
    /\ call \in MathCalls
    /\ ret = NoReturn
    /\ custom_formulas = NoCustomFormulas
    /\ session_state = InitialSession

\* DemographicDecomposition().analyze(df, group, w1, y1, w2, y2, normalize)
Analyze ==
    /\ pc = "ready"
    /\ call.kind = "demographic"
    /\ ret' = Demographic_analyze(call.df, call.normalize)
    /\ call' = [call EXCEPT !.df = CallersDataset(call.df, call.normalize)]
    /\ pc' = "done"
    /\ UNCHANGED <<custom_formulas, session_state>>

\* MathematicalDecomposition().analyze(formula_type, data, periods)
AnalyzeFormula ==
    /\ pc = "ready"
    /\ call.kind = "mathematical"
    /\ ret' = Mathematical_analyze(custom_formulas, call.formula_type, call.data, Periods)
    /\ pc' = "done"
    /\ UNCHANGED <<call, custom_formulas, session_state>>

\* RegressionDecomposition().oaxaca_blinder(df, outcome, predictors, group_var, group1, group2, method)
Decompose ==
    /\ pc = "ready"
    /\ call.kind = "regression"
    /\ ret' = oaxaca_blinder(call.df, call.method)
    /\ pc' = "done"
    /\ UNCHANGED <<call, custom_formulas, session_state>>

SpecDemographic == InitDemographic /\ [][Analyze]_vars

\* the caller calls analyze a second time with the same arguments
AnalyzeAgain ==
    /\ pc = "done"
    /\ call.kind = "demographic"
    /\ ret' = Demographic_analyze(call.df, call.normalize)
    /\ call' = [call EXCEPT !.df = CallersDataset(call.df, call.normalize)]
    /\ pc' = "again"
    /\ UNCHANGED <<custom_formulas, session_state>>

SpecRepeated == InitDemographic /\ [][Analyze \/ AnalyzeAgain]_vars

SpecMathematical == InitMathematical /\ [][AnalyzeFormula]_vars

SpecRegression == InitRegression /\ [][Decompose]_vars

(***************************************************************************)
(* One MathematicalDecomposition instance over several calls: formulas are  *)
(* registered with create_custom_formula and decomposed with analyze.       *)
(***************************************************************************)
\* the instance holds at most MaxFormulas custom formulas
MaxFormulas == 3

\* "Y = A*B", "Y = A*B/A", "Y = K", and "A*B", which has no "=" sign
Expressions ==
    {<<"Y", "=", "A", "*", "B">>, <<"Y", "=", "A", "*", "B", "/", "A">>,
     <<"Y", "=", "K">>, <<"A", "*", "B">>}

\* the name argument; "" stands for the default None
Names == {"", "growth", "custom_2"}

\* the documented ratio scenario with a value for K as well
ScenarioCustom == ScenarioRatio @@ ("K" :> ("2015" :> R(2) @@ "2020" :> R(3)))

RegistryCalls ==
    {[kind |-> "custom", expression |-> e, name |-> n] : e \in Expressions, n \in Names}
    \cup {[kind |-> "mathematical", formula_type |-> f, data |-> d] :
            f \in {"custom_1", "custom_2", "growth", "ratio", "product_simple", "Ratio"},
            d \in {ScenarioCustom, ScenarioRatio} \cup IncompleteData}

InitRegistry ==
    /\ pc = "ready"
    /\ call \in RegistryCalls
    /\ ret = NoReturn
    /\ custom_formulas = NoCustomFormulas
    /\ session_state = InitialSession

\* analyzer.create_custom_formula(expression, name)
CreateCustomFormula ==
    /\ pc = "ready"
    /\ call.kind = "custom"
    /\ Cardinality(DOMAIN custom_formulas) < MaxFormulas
    /\ custom_formulas' = create_custom_formula(custom_formulas, call.expression, call.name).registry
    /\ ret' = create_custom_formula(custom_formulas, call.expression, call.name).ret
    /\ pc' = "done"
    /\ UNCHANGED <<call, session_state>>

\* the caller makes another call on the same instance
NextCall ==
    /\ pc = "done"
    /\ call' \in RegistryCalls
    /\ ret' = NoReturn
    /\ pc' = "ready"
    /\ UNCHANGED <<custom_formulas, session_state>>

SpecRegistry == InitRegistry /\ [][CreateCustomFormula \/ AnalyzeFormula \/ NextCall]_vars

InitBinary64 ==
    /\ pc = "ready"
    /\ \/ \E s \in Arrangements, n \in BOOLEAN :
            call = [kind |-> "demographic64", normalize |-> n,
                    df |-> DataFrame(AllColumns, {}, Arranged(s))]
       \/ \E a \in [PeriodSet -> RatioNumerators], b \in [PeriodSet -> RatioDenominators] :
            call = [kind |-> "ratio64", data |-> ("A" :> a @@ "B" :> b)]
    /\ ret = NoReturn
    /\ custom_formulas = NoCustomFormulas
    /\ session_state = InitialSession

\* DemographicDecomposition().analyze(...) in binary64
Analyze64 ==
    /\ pc = "ready"
    /\ call.kind = "demographic64"
    /\ ret' = Demographic_analyze64(call.df, call.normalize)
    /\ pc' = "done"
    /\ UNCHANGED <<call, custom_formulas, session_state>>

\* MathematicalDecomposition().analyze('ratio', data, periods) in binary64
AnalyzeRatio64 ==
    /\ pc = "ready"
    /\ call.kind = "ratio64"
    /\ ret' = Mathematical_analyze_ratio64(call.data, Periods)
    /\ pc' = "done"
    /\ UNCHANGED <<call, custom_formulas, session_state>>

SpecBinary64 == InitBinary64 /\ [][Analyze64 \/ AnalyzeRatio64]_vars

(***************************************************************************)
(* Calls on one MathematicalDecomposition instance from several threads:    *)
(* threads 1 and 2 run create_custom_formula, thread 3 runs analyze.  The   *)
(* class takes no lock; a thread can be preempted between two bytecodes, so *)
(* reading len(self.custom_formulas) and storing the formula are two steps, *)
(* and so are the membership test and the lookup of analyze.  Here pc, call *)
(* and ret hold one entry per thread.                                       *)
(***************************************************************************)
Creators == {1, 2}

Analyzer == 3

InitThreads ==
    /\ pc = [t \in Creators \cup {Analyzer} |-> "ready"]
    /\ \E e \in [Creators -> Expressions], n \in [Creators -> Names],
          f \in {"custom_1", "custom_2", "growth"} :
            call = [t \in Creators \cup {Analyzer} |->
                       IF t \in Creators
                       THEN [kind |-> "custom", expression |-> e[t], name |-> n[t],
                             formula_id |-> ""]
                       ELSE [kind |-> "mathematical", formula_type |-> f,
                             data |-> ScenarioCustom]]
    /\ ret = [t \in Creators \cup {Analyzer} |-> NoReturn]
    /\ custom_formulas = NoCustomFormulas
    /\ session_state = InitialSession

\* create_custom_formula, lines 308-311: the expression is parsed and the id
\* built from the name or from the number of formulas registered so far
BuildId(t) ==
    /\ pc[t] = "ready"
    /\ IF Len(Split(call[t].expression, 1, <<>>)) < 2
       THEN /\ ret' = [ret EXCEPT ![t] = IndexError]
            /\ pc' = [pc EXCEPT ![t] = "done"]
            /\ UNCHANGED <<call, session_state>>
       ELSE /\ call' = [call EXCEPT ![t].formula_id = FormulaId(custom_formulas, call[t].name)]
            /\ pc' = [pc EXCEPT ![t] = "built"]
            /\ UNCHANGED ret
    /\ UNCHANGED <<custom_formulas, session_state>>

\* create_custom_formula, lines 313-321: the formula is stored under the id
\* built before, and the id returned
StoreFormula(t) ==
    /\ pc[t] = "built"
    /\ custom_formulas' = Register(custom_formulas, call[t].expression, call[t].formula_id,
                                   FindAll(Split(call[t].expression, 1, <<>>)[2])).registry
    /\ ret' = [ret EXCEPT ![t] = [kind |-> "ok", formula_id |-> call[t].formula_id]]
    /\ pc' = [pc EXCEPT ![t] = "done"]
    /\ UNCHANGED <<call, session_state>>

\* analyze, lines 76-77: the name is looked for in the two registries
CheckFormula ==
    /\ pc[Analyzer] = "ready"
    /\ IF call[Analyzer].formula_type \notin BuiltIn \cup DOMAIN custom_formulas
       THEN /\ ret' = [ret EXCEPT ![Analyzer] =
                          ValueError("unknown_formula", call[Analyzer].formula_type)]
            /\ pc' = [pc EXCEPT ![Analyzer] = "done"]
       ELSE /\ pc' = [pc EXCEPT ![Analyzer] = "found"]
            /\ UNCHANGED ret
    /\ UNCHANGED <<call, custom_formulas, session_state>>

\* analyze, lines 79-102: the formula is fetched from the registry as it is
\* now, and decomposed
FetchFormula ==
    /\ pc[Analyzer] = "found"
    /\ ret' = [ret EXCEPT ![Analyzer] =
                  Mathematical_analyze(custom_formulas, call[Analyzer].formula_type,
                                       call[Analyzer].data, Periods)]
    /\ pc' = [pc EXCEPT ![Analyzer] = "done"]
    /\ UNCHANGED <<call, custom_formulas, session_state>>

NextThreads ==
    \/ \E t \in Creators : BuildId(t)
    \/ \E t \in Creators : StoreFormula(t)
    \/ CheckFormula
    \/ FetchFormula

SpecThreads == InitThreads /\ [][NextThreads]_vars

(***************************************************************************)
(* src/modules/structural.py: StructuralDecomposition.nested_decomposition  *)
(*                                                                          *)
(* A dataset is its set of column names and its rows; df1 and df2 are the   *)
(* rows of the two periods.                                                 *)
(***************************************************************************)
KeyError(key) == [kind |-> "error", type |-> "KeyError", key |-> key]

\* df[df[column] == value]
Where(rows, column, value) == SelectSeq(rows, LAMBDA r : r[column] = value)

\* series.unique(): the distinct values in the order of their first appearance
RECURSIVE Unique(_)
Unique(series) ==
    IF series = <<>> THEN <<>>
    ELSE IF series[Len(series)] \in Range(SubSeq(series, 1, Len(series) - 1))
         THEN Unique(SubSeq(series, 1, Len(series) - 1))
         ELSE Append(Unique(SubSeq(series, 1, Len(series) - 1)), series[Len(series)])

\* series.mean(): NaN for an empty series
Mean(series) == IF series = <<>> THEN NaN ELSE RDiv(SumSeq(series), R(Len(series)))

\* df[df[group_var] == group][outcome].mean() if group in df[group_var].values else absent
GroupMean(df, outcome, group_var, group, absent) ==
    IF group \in Range(Column(df, group_var))
    THEN Mean(Column(Where(df, group_var, group), outcome))
    ELSE absent

\* len(df[df[group_var] == group]) / len(df) if len(df) > 0 else 0
GroupWeight(df, group_var, group) ==
    IF Len(df) > 0 THEN RDiv(R(Len(Where(df, group_var, group))), R(Len(df))) ELSE R(0)

\* group2 - group1 if neither is NaN, else NaN
GroupChange(group1, group2) ==
    IF ~IsNaN(group1) /\ ~IsNaN(group2) THEN RSub(group2, group1) ELSE NaN

\* the entry of one group in the result of _decompose_by_group
GroupEntry(df1, df2, outcome, group_var, group) ==
    [mean_period1 |-> GroupMean(df1, outcome, group_var, group, NaN),
     mean_period2 |-> GroupMean(df2, outcome, group_var, group, NaN),
     change |-> GroupChange(GroupMean(df1, outcome, group_var, group, NaN),
                            GroupMean(df2, outcome, group_var, group, NaN)),
     weight_period1 |-> GroupWeight(df1, group_var, group),
     weight_period2 |-> GroupWeight(df2, group_var, group)]

\* ((y1 + y2) / 2) * (w2 - w1)
CompositionTerm(y1, y2, w1, w2) == RMul(Half(RAdd(y1, y2)), RSub(w2, w1))

\* ((w1 + w2) / 2) * (y2 - y1)
BehaviorTerm(y1, y2, w1, w2) == RMul(Half(RAdd(w1, w2)), RSub(y2, y1))

\* composition_effect after the loop over all_groups[1..i]
RECURSIVE CompositionEffect(_, _, _, _, _, _, _, _)
CompositionEffect(df1, df2, outcome, group_var, Y1, Y2, all_groups, i) ==
    IF i = 0 THEN R(0)
    ELSE RAdd(CompositionEffect(df1, df2, outcome, group_var, Y1, Y2, all_groups, i - 1),
              CompositionTerm(GroupMean(df1, outcome, group_var, all_groups[i], Y1),
                              GroupMean(df2, outcome, group_var, all_groups[i], Y2),
                              GroupWeight(df1, group_var, all_groups[i]),
                              GroupWeight(df2, group_var, all_groups[i])))

\* behavior_effect after the loop over all_groups[1..i]
RECURSIVE BehaviorEffect(_, _, _, _, _, _, _, _)
BehaviorEffect(df1, df2, outcome, group_var, Y1, Y2, all_groups, i) ==
    IF i = 0 THEN R(0)
    ELSE RAdd(BehaviorEffect(df1, df2, outcome, group_var, Y1, Y2, all_groups, i - 1),
              BehaviorTerm(GroupMean(df1, outcome, group_var, all_groups[i], Y1),
                           GroupMean(df2, outcome, group_var, all_groups[i], Y2),
                           GroupWeight(df1, group_var, all_groups[i]),
                           GroupWeight(df2, group_var, all_groups[i])))

\* the dictionary _calculate_global_decomposition returns
GlobalResult(Y1, Y2, delta_Y, composition_effect, behavior_effect) ==
    [Y1 |-> Y1, Y2 |-> Y2, delta_Y |-> delta_Y,
     composition_effect |-> composition_effect,
     behavior_effect |-> behavior_effect,
     composition_percent |-> Percent(composition_effect, delta_Y),
     behavior_percent |-> Percent(behavior_effect, delta_Y)]

\* the effects of one level with the overall mean of the other period
\* standing in for the mean of a group absent from a period
GlobalEffects_Opposite(df1, df2, outcome, group_var, Y1, Y2, all_groups) ==
    GlobalResult(Y1, Y2, RSub(Y2, Y1),
        CompositionEffect(df1, df2, outcome, group_var, Y2, Y1, all_groups, Len(all_groups)),
        BehaviorEffect(df1, df2, outcome, group_var, Y2, Y1, all_groups, Len(all_groups)))

\* the effects of one level, once the overall means and the groups are known
GlobalEffects(df1, df2, outcome, group_var, Y1, Y2, all_groups) ==
    GlobalResult(Y1, Y2, RSub(Y2, Y1),
        CompositionEffect(df1, df2, outcome, group_var, Y1, Y2, all_groups, Len(all_groups)),
        BehaviorEffect(df1, df2, outcome, group_var, Y1, Y2, all_groups, Len(all_groups)))

\* _calculate_global_decomposition
_calculate_global_decomposition(df1, df2, outcome, group_var) ==
    GlobalEffects(df1, df2, outcome, group_var,
                  Mean(Column(df1, outcome)), Mean(Column(df2, outcome)),
                  Unique(Column(df1, group_var) \o Column(df2, group_var)))

\* the result of _decompose_by_group over the groups found in either period
GroupResults(df1, df2, outcome, group_var, groups) ==
    [kind |-> "ok",
     groups |-> [group \in Range(groups) |-> GroupEntry(df1, df2, outcome, group_var, group)],
     _global |-> _calculate_global_decomposition(df1, df2, outcome, group_var)]

\* _decompose_by_group; selecting a column the dataset does not have raises KeyError
_decompose_by_group(columns, df1, df2, outcome, group_var) ==
    IF group_var \notin columns THEN KeyError(group_var)
    ELSE IF outcome \notin columns THEN KeyError(outcome)
    ELSE GroupResults(df1, df2, outcome, group_var,
                      Unique(Column(df1, group_var) \o Column(df2, group_var)))

\* category_results after the loop over secondary_groups[1..j], or the error a
\* decomposition raised
RECURSIVE CategoryResults(_, _, _, _, _, _)
CategoryResults(columns, sub_df1, sub_df2, outcome, secondary_groups, j) ==
    IF j = 0 THEN [kind |-> "ok", results |-> <<>>]
    ELSE IF CategoryResults(columns, sub_df1, sub_df2, outcome, secondary_groups, j - 1).kind = "error"
         THEN CategoryResults(columns, sub_df1, sub_df2, outcome, secondary_groups, j - 1)
    ELSE IF _decompose_by_group(columns, sub_df1, sub_df2, outcome, secondary_groups[j]).kind = "error"
         THEN _decompose_by_group(columns, sub_df1, sub_df2, outcome, secondary_groups[j])
    ELSE [kind |-> "ok",
          results |-> (secondary_groups[j] :>
                          _decompose_by_group(columns, sub_df1, sub_df2, outcome, secondary_groups[j]))
                      @@ CategoryResults(columns, sub_df1, sub_df2, outcome,
                                         secondary_groups, j - 1).results]

\* results['levels']['secondary'][category] = category_results: the lookup of
\* 'secondary' in levels raises KeyError when levels has no such key
StoreCategory(levels, category, category_results) ==
    IF category_results.kind = "error" THEN category_results
    ELSE IF "secondary" \notin DOMAIN levels THEN KeyError("secondary")
    ELSE [kind |-> "ok",
          levels |-> [levels EXCEPT !["secondary"] =
                         (category :> category_results.results) @@ levels["secondary"]]]

\* levels after the loop over categories[1..i], or the error raised in it
RECURSIVE SecondaryLevels(_, _, _, _, _, _, _, _, _)
SecondaryLevels(levels, columns, df1, df2, outcome, primary_group, secondary_groups, categories, i) ==
    IF i = 0 THEN [kind |-> "ok", levels |-> levels]
    ELSE IF SecondaryLevels(levels, columns, df1, df2, outcome, primary_group,
                            secondary_groups, categories, i - 1).kind = "error"
         THEN SecondaryLevels(levels, columns, df1, df2, outcome, primary_group,
                              secondary_groups, categories, i - 1)
    ELSE StoreCategory(SecondaryLevels(levels, columns, df1, df2, outcome, primary_group,
                                       secondary_groups, categories, i - 1).levels,
                       categories[i],
                       CategoryResults(columns, Where(df1, primary_group, categories[i]),
                                       Where(df2, primary_group, categories[i]),
                                       outcome, secondary_groups, Len(secondary_groups)))

\* the composition and behavior shares of one level
Shares(global_res) ==
    [composition |-> global_res.composition_percent, behavior |-> global_res.behavior_percent]

\* _calculate_hierarchical_contributions
_calculate_hierarchical_contributions(levels) ==
    IF "secondary" \notin DOMAIN levels THEN KeyError("secondary")
    ELSE [kind |-> "ok",
          primary |-> Shares(levels["primary"]._global),
          secondary |-> [category \in DOMAIN levels["secondary"] |->
                            [var_name \in DOMAIN levels["secondary"][category] |->
                                Shares(levels["secondary"][category][var_name]._global)]]]

\* the dictionary nested_decomposition returns, unless the contributions raised
NestedResult(primary_group, secondary_groups, periods, levels, contributions) ==
    IF contributions.kind = "error" THEN contributions
    ELSE [kind |-> "ok", primary_group |-> primary_group,
          secondary_groups |-> secondary_groups, periods |-> periods,
          levels |-> levels, hierarchical_contributions |-> contributions]

\* nested_decomposition after the loop over the categories of the primary group
AfterCategories(primary_group, secondary_groups, periods, looped) ==
    IF looped.kind = "error" THEN looped
    ELSE NestedResult(primary_group, secondary_groups, periods, looped.levels,
                      _calculate_hierarchical_contributions(looped.levels))

\* nested_decomposition once the primary level is decomposed: levels holds the
\* key 'primary' only
AfterPrimary(df, df1, df2, outcome, primary_group, secondary_groups, periods, primary_results) ==
    IF primary_results.kind = "error" THEN primary_results
    ELSE AfterCategories(primary_group, secondary_groups, periods,
            SecondaryLevels([primary |-> primary_results], df.columns, df1, df2, outcome,
                            primary_group, secondary_groups,
                            Unique(Column(df.rows, primary_group)),
                            Len(Unique(Column(df.rows, primary_group)))))

\* nested_decomposition once the rows of the two periods are selected
Nested(df, df1, df2, outcome, primary_group, secondary_groups, periods) ==
    AfterPrimary(df, df1, df2, outcome, primary_group, secondary_groups, periods,
                 _decompose_by_group(df.columns, df1, df2, outcome, primary_group))

\* StructuralDecomposition.nested_decomposition
nested_decomposition(df, outcome, primary_group, secondary_groups, periods) ==
    IF "period" \notin df.columns THEN KeyError("period")
    ELSE Nested(df, Where(df.rows, "period", periods[1]), Where(df.rows, "period", periods[2]),
                outcome, primary_group, secondary_groups, periods)

(***************************************************************************)
(* The calls of the structural specification                                *)
(***************************************************************************)
\* a dataset has at most MaxRecords rows
MaxRecords == 2

StructuralColumns == {"period", "region", "sex", "y"}

\* a row: its period, its two grouping columns and its outcome
Records ==
    [period : PeriodSet, region : {"North", "South"}, sex : {"F", "M"}, y : {R(1), R(3)}]

\* a dataset with at most one of its columns removed
Datasets ==
    {[columns |-> StructuralColumns \ dropped, rows |-> rows] :
        dropped \in {{}} \cup {{c} : c \in StructuralColumns},
        rows \in SeqsUpTo(Records, MaxRecords)}

\* no secondary grouping, one, or one more that is not a column of the dataset
SecondaryGroups == {<<>>, <<"sex">>, <<"sex", "age">>}

InitStructural ==
    /\ pc = "ready"
    /\ \E df \in Datasets, secondary_groups \in SecondaryGroups :
        call = [kind |-> "structural", df |-> df, secondary_groups |-> secondary_groups]
    /\ ret = NoReturn
    /\ custom_formulas = NoCustomFormulas
    /\ session_state = InitialSession

\* StructuralDecomposition().nested_decomposition(df, outcome, primary_group, secondary_groups, periods)
Nest ==
    /\ pc = "ready"
    /\ call.kind = "structural"
    /\ ret' = nested_decomposition(call.df, "y", "region", call.secondary_groups, Periods)
    /\ pc' = "done"
    /\ UNCHANGED <<call, custom_formulas, session_state>>

SpecStructural == InitStructural /\ [][Nest]_vars

\* a level of the tree has at most MaxLevelRows rows
MaxLevelRows == 3

\* the rows of a level: what the decomposition of a level reads of a row
LevelRecords == {r \in Records : r.sex = "F"}

InitLevel ==
    /\ pc = "ready"
    /\ \E rows \in SeqsUpTo(LevelRecords, MaxLevelRows) :
        call = [kind |-> "level", df |-> [columns |-> StructuralColumns, rows |-> rows]]
    /\ ret = NoReturn
    /\ custom_formulas = NoCustomFormulas
    /\ session_state = InitialSession

\* self._decompose_by_group(df1, df2, outcome, primary_group), structural.py line 55
DecomposeLevel ==
    /\ pc = "ready"
    /\ call.kind = "level"
    /\ ret' = _decompose_by_group(call.df.columns, Where(call.df.rows, "period", Periods[1]),
                                  Where(call.df.rows, "period", Periods[2]), "y", "region")
    /\ pc' = "done"
    /\ UNCHANGED <<call, custom_formulas, session_state>>

SpecLevel == InitLevel /\ [][DecomposeLevel]_vars

(***************************************************************************)
(* _calculate_global_decomposition in binary64                              *)
(***************************************************************************)
\* series.mean() in binary64: the sum in row order over the count
Mean64(series) ==
    IF series = <<>> THEN FNaN ELSE FDiv(pandas_sum64(series), FromInt(Len(series)))

\* df[df[group_var] == group][outcome].mean() if group in df[group_var].values else absent
GroupMean64(df, outcome, group_var, group, absent) ==
    IF group \in Range(Column(df, group_var))
    THEN Mean64(FColumn(Where(df, group_var, group), outcome))
    ELSE absent

\* len(df[df[group_var] == group]) / len(df) if len(df) > 0 else 0
GroupWeight64(df, group_var, group) ==
    IF Len(df) > 0 THEN FDiv(FromInt(Len(Where(df, group_var, group))), FromInt(Len(df)))
    ELSE FZero

\* the composition term with the two factors of the other effect
CompositionTerm64_Swapped(y1, y2, w1, w2) == FMul(FDiv(FAdd(w1, w2), F2), FSub(w2, w1))

\* ((y1 + y2) / 2) * (w2 - w1), rounded after every operation
CompositionTerm64(y1, y2, w1, w2) == FMul(FDiv(FAdd(y1, y2), F2), FSub(w2, w1))

\* ((w1 + w2) / 2) * (y2 - y1), rounded after every operation
BehaviorTerm64(y1, y2, w1, w2) == FMul(FDiv(FAdd(w1, w2), F2), FSub(y2, y1))

\* composition_effect and behavior_effect after one more group
AddGroup64(effects, y1, y2, w1, w2) ==
    [composition_effect |-> FAdd(effects.composition_effect, CompositionTerm64(y1, y2, w1, w2)),
     behavior_effect |-> FAdd(effects.behavior_effect, BehaviorTerm64(y1, y2, w1, w2))]

\* composition_effect and behavior_effect after the loop over all_groups[1..i]
RECURSIVE Effects64(_, _, _, _, _, _, _, _)
Effects64(df1, df2, outcome, group_var, Y1, Y2, all_groups, i) ==
    IF i = 0 THEN [composition_effect |-> FZero, behavior_effect |-> FZero]
    ELSE AddGroup64(Effects64(df1, df2, outcome, group_var, Y1, Y2, all_groups, i - 1),
                    GroupMean64(df1, outcome, group_var, all_groups[i], Y1),
                    GroupMean64(df2, outcome, group_var, all_groups[i], Y2),
                    GroupWeight64(df1, group_var, all_groups[i]),
                    GroupWeight64(df2, group_var, all_groups[i]))

\* the dictionary _calculate_global_decomposition returns
GlobalResult64(Y1, Y2, delta_Y, effects) ==
    [kind |-> "ok", Y1 |-> Y1, Y2 |-> Y2, delta_Y |-> delta_Y,
     composition_effect |-> effects.composition_effect,
     behavior_effect |-> effects.behavior_effect,
     composition_percent |-> Contribution64(effects.composition_effect, delta_Y),
     behavior_percent |-> Contribution64(effects.behavior_effect, delta_Y)]

\* the effects of one level, once the overall means and the groups are known
GlobalEffects64(df1, df2, outcome, group_var, Y1, Y2, all_groups) ==
    GlobalResult64(Y1, Y2, FSub(Y2, Y1),
        Effects64(df1, df2, outcome, group_var, Y1, Y2, all_groups, Len(all_groups)))

\* _calculate_global_decomposition in binary64
_calculate_global_decomposition64(df1, df2, outcome, group_var) ==
    GlobalEffects64(df1, df2, outcome, group_var,
                    Mean64(FColumn(df1, outcome)), Mean64(FColumn(df2, outcome)),
                    Unique(Column(df1, group_var) \o Column(df2, group_var)))

\* a level has at most MaxLevelRows64 rows in binary64
MaxLevelRows64 == 4

\* the rows of period k
RecordsOf(k) == {r \in LevelRecords : r.period = Periods[k]}

\* the datasets of at most MaxLevelRows64 rows, the rows of the first period first
LevelDatasets64 ==
    {df1 \o df2 : <<df1, df2>> \in
        {p \in SeqsUpTo(RecordsOf(1), MaxLevelRows64) \X SeqsUpTo(RecordsOf(2), MaxLevelRows64) :
            Len(p[1]) + Len(p[2]) <= MaxLevelRows64}}

InitLevel64 ==
    /\ pc = "ready"
    /\ \E rows \in LevelDatasets64 :
        call = [kind |-> "level64", df |-> [columns |-> StructuralColumns, rows |-> rows]]
    /\ ret = NoReturn
    /\ custom_formulas = NoCustomFormulas
    /\ session_state = InitialSession

\* self._calculate_global_decomposition(df1, df2, outcome, group_var), line 99
GlobalDecomposition64 ==
    /\ pc = "ready"
    /\ call.kind = "level64"
    /\ ret' = _calculate_global_decomposition64(Where(call.df.rows, "period", Periods[1]),
                                                Where(call.df.rows, "period", Periods[2]),
                                                "y", "region")
    /\ pc' = "done"
    /\ UNCHANGED <<call, custom_formulas, session_state>>

SpecLevel64 == InitLevel64 /\ [][GlobalDecomposition64]_vars

(***************************************************************************)
(* src/app.py: the session of the application.  Every button of the pages  *)
(* is a handler that runs to its end within one run of the script.         *)
(***************************************************************************)
\* results.get('aggregate_results', {}).get(key, 0)
SummaryValue(results, key) ==
    IF "aggregate_results" \in DOMAIN results THEN results.aggregate_results[key] ELSE R(0)

\* the entry save_to_history builds; its timestamp, the time of the clock, is left out
HistoryEntry(analysis_type, results) ==
    [type |-> analysis_type,
     summary |-> [total_change |-> SummaryValue(results, "total_change"),
                  composition_percent |-> SummaryValue(results, "composition_percent"),
                  behavior_percent |-> SummaryValue(results, "behavior_percent")]]

\* the history cut to its first 10 entries
LastTen_First(history) == IF Len(history) > 10 THEN SubSeq(history, 1, 10) ELSE history

\* analysis_history[-10:] if len(analysis_history) > 10
LastTen(history) ==
    IF Len(history) > 10 THEN SubSeq(history, Len(history) - 9, Len(history)) ELSE history

\* save_to_history(analysis_type, results)
save_to_history(session, analysis_type, results) ==
    [session EXCEPT !.analysis_history =
        LastTen(Append(@, HistoryEntry(analysis_type, results)))]

\* reset_application()
reset_application(session) ==
    [session EXCEPT !.current_data = None, !.results = <<>>, !.analysis_type = None,
                    !.file_uploaded = FALSE, !.use_example = FALSE]

\* st.session_state.results = results; st.session_state.analysis_type = analysis_type
StoreResults(session, analysis_type, results) ==
    [session EXCEPT !.results = results, !.analysis_type = analysis_type]

\* a handler that sets the type of the analysis before it runs the
\* decomposer: the type is changed even when the decomposer raises
RunAnalysis_TypeFirst(session, analysis_type, results, saves) ==
    IF results.kind = "error" THEN [session EXCEPT !.analysis_type = analysis_type]
    ELSE IF saves THEN save_to_history(StoreResults(session, analysis_type, results),
                                       analysis_type, results)
    ELSE StoreResults(session, analysis_type, results)

\* the body of an analysis button: try: results = <decomposer call>; store
\* them; save them to the history if the page does so; except Exception:
\* show the error.  results is what the decomposer returned or raised.
RunAnalysis(session, analysis_type, results, saves) ==
    IF results.kind = "error" THEN session
    ELSE IF saves THEN save_to_history(StoreResults(session, analysis_type, results),
                                       analysis_type, results)
    ELSE StoreResults(session, analysis_type, results)

\* Python's x / y: ZeroDivisionError for y = 0
PyDiv(x, y) == IF y = R(0) THEN ZeroDivisionError ELSE [kind |-> "ok", value |-> RDiv(x, y)]

\* one component of the simulation: its effect and its share of the total change
Component(effect, total_change) ==
    [effect |-> effect, percent |-> RMul(PyDiv(effect, total_change).value, R(Hundred))]

\* lines 1800-1816 with the four effects computed
SimulationResults(total_change, fertility, mortality, migration) ==
    IF PyDiv(fertility, total_change).kind = "error" THEN ZeroDivisionError
    ELSE [kind |-> "ok", type |-> "demographic_components", total_change |-> total_change,
          components |->
             [fertility |-> Component(fertility, total_change),
              mortality |-> Component(mortality, total_change),
              migration |-> Component(migration, total_change),
              age_structure |->
                 Component(RSub(total_change, RAdd(RAdd(fertility, mortality), migration)),
                           total_change)]]

\* lines 1797-1816: the simulation of the demographic components with the
\* rates of the form left at their defaults (fertility 4.0 -> 2.5, mortality
\* 10.0 -> 8.0, migration 0.0 -> 0.5)
Simulation(initial_pop, final_pop) ==
    SimulationResults(RSub(final_pop, initial_pop),
                      RMul(RMul(RSub(<<5, 2>>, R(4)), initial_pop), <<1, 10>>),
                      RNeg(RMul(RMul(RSub(R(8), R(10)), initial_pop), <<1, 100>>)),
                      RMul(RMul(RSub(<<1, 2>>, R(0)), initial_pop), <<1, 100>>))

(***************************************************************************)
(* The runs of the session specification                                    *)
(***************************************************************************)
\* a session runs at most MaxRuns analyses
MaxRuns == 3

\* what the forms of the pages hand to the decomposers
DemographicForms ==
    {[df |-> DataFrame(AllColumns, {}, Labelled(ScenarioRows)), normalize |-> TRUE],
     [df |-> DataFrame(AllColumns \ {"w2"}, {}, Labelled(ScenarioRows)), normalize |-> TRUE]}

RatioForms ==
    {ScenarioRatio, [v \in {"A", "B"} |-> [p \in PeriodSet |-> R(0)]]}

ProductForms ==
    {[v \in {"G", "k", "P"} |-> [p \in PeriodSet |-> IF p = "2015" THEN R(1) ELSE R(2)]],
     [v \in {"G", "k", "P"} |-> [p \in PeriodSet |-> R(0)]]}

DividendForms ==
    {[v \in {"G", "A", "P"} |-> [p \in PeriodSet |-> IF p = "2015" THEN R(1) ELSE R(2)]]}

RegressionForms ==
    {[df |-> [dtype |-> "int64", rows |-> GroupRows(<<1, 4>>, 1, FALSE) \o GroupRows(<<3, 6>>, 2, FALSE)],
      method |-> m] : m \in {"oaxaca", "pooled"}}

NestedForms ==
    {[df |-> [columns |-> StructuralColumns,
              rows |-> <<[period |-> "2015", region |-> "North", sex |-> "F", y |-> R(1)],
                         [period |-> "2020", region |-> "North", sex |-> "M", y |-> R(3)]>>],
      secondary_groups |-> <<"sex">>]}

SimulationForms == {<<R(1), R(2)>>, <<R(1), R(1)>>}

InitSession ==
    /\ pc = "ready"
    /\ call = [kind |-> "session", handler |-> "start", runs |-> 0]
    /\ ret = NoReturn
    /\ custom_formulas = NoCustomFormulas
    /\ session_state = InitialSession

\* a handler of the session has run: the analysis it ran, if any, counts
Handled(handler, results, analyses) ==
    /\ call' = [kind |-> "session", handler |-> handler, runs |-> call.runs + analyses]
    /\ ret' = results
    /\ UNCHANGED <<pc, custom_formulas>>

CanRun == call.kind = "session" /\ call.runs < MaxRuns

\* lines 359-367: a file is uploaded and read
UploadFile ==
    /\ call.kind = "session"
    /\ session_state' = [session_state EXCEPT !.current_data = "uploaded", !.file_uploaded = TRUE]
    /\ Handled("upload", NoReturn, 0)

\* lines 383-384: the quick-action button of the examples
UseExample ==
    /\ call.kind = "session"
    /\ session_state' = [session_state EXCEPT !.use_example = TRUE]
    /\ Handled("example", NoReturn, 0)

\* lines 283-284: load_example_data has read an example
LoadExampleData ==
    /\ call.kind = "session"
    /\ session_state' = [session_state EXCEPT !.current_data = "example", !.use_example = TRUE]
    /\ Handled("load_example", NoReturn, 0)

\* lines 386-387: the quick-action button of the reset
Reset ==
    /\ call.kind = "session"
    /\ session_state' = reset_application(session_state)
    /\ Handled("reset", NoReturn, 0)

\* what the decomposers return or raise on the forms of the pages
DemographicOutcomes == {Demographic_analyze(form.df, form.normalize) : form \in DemographicForms}

RatioOutcomes == {Mathematical_analyze(NoCustomFormulas, "ratio", data, Periods) : data \in RatioForms}

ProductOutcomes == {Mathematical_analyze(NoCustomFormulas, "product", data, Periods) : data \in ProductForms}

DividendOutcomes == {Mathematical_analyze(NoCustomFormulas, "demographic_dividend", data, Periods) : data \in DividendForms}

RegressionOutcomes == {oaxaca_blinder(form.df, form.method) : form \in RegressionForms}

NestedOutcomes == {nested_decomposition(form.df, "y", "region", form.secondary_groups, Periods) : form \in NestedForms}

SimulationOutcomes == {Simulation(form[1], form[2]) : form \in SimulationForms}

\* lines 672-695: the button of the demographic page
RunDemographic ==
    /\ CanRun
    /\ \E results \in DemographicOutcomes :
        /\ session_state' = RunAnalysis(session_state, "demographic", results, TRUE)
        /\ Handled("demographic", results, 1)

\* lines 1169-1182: the ratio form of the mathematical page
RunRatio ==
    /\ CanRun
    /\ \E results \in RatioOutcomes :
        /\ session_state' = RunAnalysis(session_state, "mathematical", results, TRUE)
        /\ Handled("ratio", results, 1)

\* lines 1201-1214: the product form of the mathematical page
RunProduct ==
    /\ CanRun
    /\ \E results \in ProductOutcomes :
        /\ session_state' = RunAnalysis(session_state, "mathematical", results, FALSE)
        /\ Handled("product", results, 1)

\* lines 1239-1252: the demographic dividend form of the mathematical page
RunDividend ==
    /\ CanRun
    /\ \E results \in DividendOutcomes :
        /\ session_state' = RunAnalysis(session_state, "mathematical", results, FALSE)
        /\ Handled("dividend", results, 1)

\* lines 1506-1541: the button of the regression page
RunRegression ==
    /\ CanRun
    /\ \E results \in RegressionOutcomes :
        /\ session_state' = RunAnalysis(session_state, "regression", results, TRUE)
        /\ Handled("regression", results, 1)

\* lines 1746-1766: the nested analysis of the structural page
RunNested ==
    /\ CanRun
    /\ \E results \in NestedOutcomes :
        /\ session_state' = RunAnalysis(session_state, "structural", results, TRUE)
        /\ Handled("nested", results, 1)

\* lines 1797-1825: the simulation of the structural page; it has no try, an
\* error it raises ends the run of the script with nothing stored
RunSimulation ==
    /\ CanRun
    /\ \E results \in SimulationOutcomes :
        /\ session_state' = RunAnalysis(session_state, "structural", results, FALSE)
        /\ Handled("simulation", results, 1)

NextSession ==
    \/ UploadFile \/ UseExample \/ LoadExampleData \/ Reset
    \/ RunDemographic \/ RunRatio \/ RunProduct \/ RunDividend
    \/ RunRegression \/ RunNested \/ RunSimulation

SpecSession == InitSession /\ [][NextSession]_vars

(***************************************************************************)
(* save_to_history called over and over in one session                      *)
(***************************************************************************)
\* a session saves at most MaxSaves analyses
MaxSaves == 12

\* the analyses saved: a type and the results, with or without aggregate_results
SavedAnalyses ==
    {[analysis_type |-> "demographic",
      results |-> [kind |-> "ok",
                   aggregate_results |-> [total_change |-> R(2), composition_percent |-> R(25),
                                          behavior_percent |-> R(75)]]],
     [analysis_type |-> "mathematical", results |-> [kind |-> "ok", delta_Y |-> R(0)]]}

InitHistory ==
    /\ pc = "ready"
    /\ call = [kind |-> "history", saved |-> <<>>]
    /\ ret = NoReturn
    /\ custom_formulas = NoCustomFormulas
    /\ session_state = InitialSession

\* save_to_history(analysis_type, results), lines 291-305
SaveToHistory ==
    /\ call.kind = "history"
    /\ Len(call.saved) < MaxSaves
    /\ \E a \in SavedAnalyses :
        /\ session_state' = save_to_history(session_state, a.analysis_type, a.results)
        /\ call' = [call EXCEPT !.saved = Append(@, a)]
    /\ UNCHANGED <<pc, ret, custom_formulas>>

SpecHistory == InitHistory /\ [][SaveToHistory]_vars


\* the engines together: one call of either method
Init == InitDemographic \/ InitMathematical \/ InitRegression

Next == Analyze \/ AnalyzeFormula \/ Decompose

Spec == Init /\ [][Next]_vars

(***************************************************************************)
(* Claims about DemographicDecomposition.analyze                            *)
(***************************************************************************)
Returned == pc = "done" /\ ret.kind = "ok"

DemographicReturned == Returned /\ call.kind = "demographic"

TotalContribution(r) == SumSeq(Column(r.group_results, "total_contribution"))

\* C1: for every call of analyze that returns, whatever the weights and
\* whether or not normalize is set, the per-group total_contribution values
\* sum to total_change = Y2 - Y1 to within 1e-6.
C1_Additivity ==
    DemographicReturned =>
        Within1e6(TotalContribution(ret), ret.aggregate_results.total_change)

ScenarioCall(n) ==
    [kind |-> "demographic", normalize |-> n,
     df |-> DataFrame(AllColumns, {}, Labelled(ScenarioRows))]

\* C4 as stated: on the scenario rows without normalize, Y1 = 16, Y2 = 14,
\* total_change = -2 and the composition effects are +1.0 (A) and -1.0 (B).
C4_ScenarioAsStated ==
    (pc = "done" /\ call = ScenarioCall(FALSE)) =>
        /\ ret.kind = "ok"
        /\ ret.aggregate_results.Y1 = R(16)
        /\ ret.aggregate_results.Y2 = R(14)
        /\ ret.aggregate_results.total_change = R(-2)
        /\ ret.group_results[1].effect_composition = R(1)
        /\ ret.group_results[2].effect_composition = R(-1)

\* C4 amended: on the scenario rows without normalize, Y1 = 16, Y2 = 14,
\* total_change = -2 and the composition effects are +2.0 (A) and -4.0 (B).
C4_Scenario ==
    (pc = "done" /\ call = ScenarioCall(FALSE)) =>
        /\ ret.kind = "ok"
        /\ ret.aggregate_results.Y1 = R(16)
        /\ ret.aggregate_results.Y2 = R(14)
        /\ ret.aggregate_results.total_change = R(-2)
        /\ ret.group_results[1].group = "A"
        /\ ret.group_results[1].effect_composition = R(2)
        /\ ret.group_results[2].group = "B"
        /\ ret.group_results[2].effect_composition = R(-4)

C4_Witness == pc = "done" /\ call = ScenarioCall(FALSE) /\ ret.kind = "ok"

CompleteFrame(df) == df.columns = AllColumns /\ df.nulls = {}

ScaleColumn(df, c, k) ==
    [df EXCEPT !.rows = [i \in 1..Len(df.rows) |->
                            [df.rows[i] EXCEPT ![c] = RMul(k, df.rows[i][c])]]]

ScaleFactors == {R(2), <<1, 2>>}

WeightColumns == {"w1", "w2"}

\* within 0.1 of 100 without being 100: the rescaling leaves such a column as it is
InsideTolerance(total) == ~OutOfTolerance(total) /\ total # R(Hundred)

RECURSIVE FirstMissing(_, _, _)
FirstMissing(df, columns, i) ==
    IF i > Len(columns) THEN 0
    ELSE IF columns[i] \notin df.columns THEN i
    ELSE FirstMissing(df, columns, i + 1)

SomeColumnMissing == call.kind = "demographic" /\ call.df.columns # AllColumns

\* C10 as stated: when a bound column is missing from the dataset, analyze
\* fails with an error that names the missing column, and returns no result.
C10_MissingColumnAsStated ==
    (pc = "done" /\ SomeColumnMissing) =>
        /\ ret.kind = "error"
        /\ ret.type = "ValueError"
        /\ ret.what = "missing_column"
        /\ ret.column \notin call.df.columns

\* C10 amended: when a bound column is missing, analyze fails with ValueError
\* and returns no result; the error names the first missing column (in the
\* order group, w1, y1, w2, y2) unless a bound column before it holds missing
\* values, in which case the error reports the missing values of the first
\* such column.
C10_MissingColumn ==
    (pc = "done" /\ SomeColumnMissing) =>
        LET m == FirstMissing(call.df, BoundColumns, 1)
            nullsBefore == {i \in 1..(m - 1) : BoundColumns[i] \in call.df.nulls}
        IN  /\ ret.kind = "error"
            /\ ret.type = "ValueError"
            /\ IF nullsBefore = {}
               THEN ret.what = "missing_column" /\ ret.column = BoundColumns[m]
               ELSE /\ ret.what = "missing_values"
                    /\ \E i \in nullsBefore :
                        /\ ret.column = BoundColumns[i]
                        /\ \A j \in nullsBefore : i <= j

\* a call on a dataset without its y2 column has raised
C10_Witness ==
    /\ pc = "done" /\ SomeColumnMissing
    /\ "y2" \notin call.df.columns
    /\ call.df.nulls = {}
    /\ ret.kind = "error"

(***************************************************************************)
(* Claims about MathematicalDecomposition.analyze                           *)
(***************************************************************************)
MathematicalReturned == Returned /\ call.kind = "mathematical"

\* the change of Y between the two periods as the result reports it
TotalChange(r, formula_type) ==
    IF formula_type = "cobb_douglas" THEN r.log_changes.delta_lnY
    ELSE IF formula_type = "demographic_dividend"
         THEN RSub(r.components.period2.Y, r.components.period1.Y)
    ELSE r.changes.delta_Y

CompleteNumbers(data, formula_type) ==
    /\ formula_type \in BuiltIn
    /\ Mathematical_validate_data(data, FORMULAS[formula_type].variables, Periods, 1).kind = "ok"

Positive(data, var) == \A p \in PeriodSet : RGt(data[var][p], R(0))

\* no denominator is 0 and no logarithm is taken of a number <= 0
NonDegenerate(data, formula_type) ==
    /\ CompleteNumbers(data, formula_type)
    /\ formula_type = "ratio" => Positive(data, "B")
    /\ formula_type = "product" => Positive(data, "P")
    /\ formula_type = "demographic_dividend" => Positive(data, "A") /\ Positive(data, "P")
    /\ formula_type = "cobb_douglas" =>
            Positive(data, "A") /\ Positive(data, "K") /\ Positive(data, "L")

\* C2: for ratio, product, demographic_dividend and cobb_douglas with
\* non-degenerate inputs, total_effect (the sum of the per-variable effects)
\* equals the total change of Y (delta_Y, delta_lnY for cobb_douglas) to
\* within 1e-6.
C2_Additivity ==
    (/\ MathematicalReturned
     /\ call.formula_type \in {"ratio", "product", "demographic_dividend", "cobb_douglas"}
     /\ NonDegenerate(call.data, call.formula_type)) =>
        Within1e6(ret.effects.total_effect, TotalChange(ret, call.formula_type))

SamePeriods(data) == \A var \in DOMAIN data : data[var][Periods[1]] = data[var][Periods[2]]

EffectNames(r) == DOMAIN r.effects

\* C7: when the period-1 and period-2 inputs are identical (w1 = w2 and
\* y1 = y2 in every row of the demographic dataset, normalize or not; equal
\* values of every variable of the formula), every effect and the total
\* change are exactly 0.
C7_ZeroChange ==
    /\ (/\ DemographicReturned
        /\ \A i \in 1..Len(call.df.rows) :
              call.df.rows[i].w1 = call.df.rows[i].w2 /\ call.df.rows[i].y1 = call.df.rows[i].y2) =>
            /\ ret.aggregate_results.total_change = R(0)
            /\ ret.aggregate_results.composition_effect = R(0)
            /\ ret.aggregate_results.behavior_effect = R(0)
            /\ \A i \in 1..Len(ret.group_results) :
                  /\ ret.group_results[i].effect_composition = R(0)
                  /\ ret.group_results[i].effect_behavior = R(0)
                  /\ ret.group_results[i].total_contribution = R(0)
    /\ (/\ MathematicalReturned
        /\ CompleteNumbers(call.data, call.formula_type)
        /\ SamePeriods(call.data)) =>
            /\ TotalChange(ret, call.formula_type) = R(0)
            /\ \A e \in EffectNames(ret) : ret.effects[e] = R(0)

(***************************************************************************)
(* Row order                                                                *)
(***************************************************************************)
RowOrders(n) ==
    {p \in [1..n -> 1..n] : \A i, j \in 1..n : i # j => p[i] # p[j]}

Permute(df, p) == [df EXCEPT !.rows = [i \in 1..Len(df.rows) |-> df.rows[p[i]]]]

\* In exact arithmetic, permuting the rows of the dataset changes no field of
\* aggregate_results, and every group keeps the values of its row of
\* group_results; a call that fails fails in the same way.
RowOrderExact ==
    (pc = "done" /\ call.kind = "demographic" /\ CompleteFrame(call.df)) =>
        \A p \in RowOrders(Len(call.df.rows)) :
            LET other == Demographic_analyze(Permute(call.df, p), call.normalize)
            IN  IF ret.kind = "ok"
                THEN /\ other.kind = "ok"
                     /\ other.aggregate_results = ret.aggregate_results
                     /\ Range(other.group_results) = Range(ret.group_results)
                ELSE other = ret

(***************************************************************************)
(* Claims about RegressionDecomposition.oaxaca_blinder                      *)
(***************************************************************************)
RegressionReturned == Returned /\ call.kind = "regression"

Slopes(coef) == Tail(coef.values)

\* mean Y = intercept + mean X . coefficients, for the coefficients returned
Reproduces(coef, means) ==
    /\ Len(Slopes(coef)) = Len(means.X)
    /\ means.Y = RAdd(Get(coef, "Intercept", R(0)), SumSeq(Products(means.X, Slopes(coef))))

\* C3: for each of the four methods, when each group's fit reproduces the
\* group's mean outcome, explained_difference + unexplained_difference equals
\* total_difference to within 1e-6.
C3_GapAdditivity ==
    (/\ RegressionReturned
     /\ Reproduces(ret.regression_results.group1, ret.means.group1)
     /\ Reproduces(ret.regression_results.group2, ret.means.group2)) =>
        Within1e6(RAdd(ret.decomposition.explained_difference,
                       ret.decomposition.unexplained_difference),
                  ret.decomposition.total_difference)

\* C6: with method 'oaxaca', when the two groups have the same predictor means
\* and different intercepts, explained_difference is 0 and
\* unexplained_difference equals total_difference.
C6_EqualMeans ==
    (/\ RegressionReturned
     /\ call.method = "oaxaca"
     /\ ret.means.group1.X = ret.means.group2.X
     /\ Get(ret.regression_results.group1, "Intercept", R(0))
            # Get(ret.regression_results.group2, "Intercept", R(0))) =>
        /\ ret.decomposition.explained_difference = R(0)
        /\ ret.decomposition.unexplained_difference = ret.decomposition.total_difference

(***************************************************************************)
(* Claims decided in binary64                                               *)
(***************************************************************************)
Tolerance64 == FromRational(<<1, 1000000>>)

\* the same special value, or two numbers no more than 1e-6 apart
Near64(x, y) ==
    IF x.cls \in {"nan", "inf"} \/ y.cls \in {"nan", "inf"} THEN x = y
    ELSE FLe(FAbs(FSub(x, y)), Tolerance64)

RatioScenarioReturned == pc = "done" /\ call.kind = "ratio64" /\ call.data = ScenarioRatio

Ten64 == FromInt(10)

\* 2^-52, the distance from 1.0 to the next double
Epsilon64 == [cls |-> "num", neg |-> FALSE, m |-> BigShl(<<1>>, 52), e |-> -104]

\* C5 as stated: analyze('ratio') with A 100 -> 120 and B 10 -> 12 returns
\* Y = 10 in both periods, delta_Y = 0 and effect_A + effect_B exactly 0.
C5_RatioScenarioAsStated ==
    RatioScenarioReturned =>
        /\ ret.kind = "ok"
        /\ ret.values.period1.Y = Ten64 /\ ret.values.period2.Y = Ten64
        /\ ret.changes.delta_Y = FZero
        /\ FAdd(ret.effects.effect_A, ret.effects.effect_B) = FZero

\* C5: analyze('ratio') with A 100 -> 120 and B 10 -> 12 returns Y = 10 in
\* both periods and delta_Y = 0; effect_A + effect_B, which is total_effect,
\* is 0 to within 1e-6 but not exactly: it is 2^-52.
C5_RatioScenario ==
    RatioScenarioReturned =>
        /\ ret.kind = "ok"
        /\ ret.values.period1.Y = Ten64 /\ ret.values.period2.Y = Ten64
        /\ ret.changes.delta_Y = FZero
        /\ FAdd(ret.effects.effect_A, ret.effects.effect_B) = ret.effects.total_effect
        /\ ret.effects.total_effect = Epsilon64
        /\ Near64(ret.effects.total_effect, FZero)

C5_Witness == RatioScenarioReturned /\ ret.kind = "ok" /\ ret.effects.effect_B.neg

Demographic64Returned == pc = "done" /\ call.kind = "demographic64" /\ ret.kind = "ok"

AggregateFields ==
    {"Y1", "Y2", "total_change", "composition_effect", "behavior_effect",
     "composition_percent", "behavior_percent", "verification"}

ContributionFields ==
    {"effect_composition", "effect_behavior", "total_contribution",
     "contribution_percent", "contribution_abs"}

\* the row of a group in group_results
RowOf(r, g) == r.group_results[CHOOSE i \in 1..Len(r.group_results) : r.group_results[i].group = g]

Groups(r) == {r.group_results[i].group : i \in 1..Len(r.group_results)}

ResultKeys == {"group_results", "aggregate_results", "metadata"}

AggregateKeys ==
    {"Y1", "Y2", "total_change", "composition_effect", "behavior_effect",
     "composition_percent", "behavior_percent", "verification"}

MetadataKeys == {"num_groups", "variables", "normalized"}

\* a key of the result, of its aggregate_results or of its metadata beyond
\* the ones above: the only place a zero-change flag could be
HasZeroChangeFlag(r) ==
    \/ (DOMAIN r \ {"kind"}) \ ResultKeys # {}
    \/ DOMAIN r.aggregate_results \ AggregateKeys # {}
    \/ DOMAIN r.metadata \ MetadataKeys # {}

\* both weighted means exist and are equal: the total change is 0
ZeroTotalChange(df) ==
    /\ CompleteFrame(df)
    /\ Len(df.rows) > 0
    /\ NonZero(SumSeq(Column(df.rows, "w1")))
    /\ NonZero(SumSeq(Column(df.rows, "w2")))
    /\ _weighted_mean(Column(df.rows, "w1"), Column(df.rows, "y1")).value
         = _weighted_mean(Column(df.rows, "w2"), Column(df.rows, "y2")).value

\* every percentage share of the result is the number 0
SharesAreZero(r) ==
    /\ r.aggregate_results.composition_percent = R(0)
    /\ r.aggregate_results.behavior_percent = R(0)
    /\ \A i \in 1..Len(r.group_results) : r.group_results[i].contribution_percent = R(0)

\* with a total change of 0 the call returns and every share is 0 (the part
\* of C11 the code keeps)
ZeroChangeShares ==
    (pc = "done" /\ call.kind = "demographic" /\ ZeroTotalChange(call.df)) =>
        /\ ret.kind = "ok"
        /\ ret.aggregate_results.total_change = R(0)
        /\ SharesAreZero(ret)

\* C11: when total_change is 0, analyze does not fail, every percentage share
\* (contribution_percent of each group, composition_percent, behavior_percent)
\* is 0 and not NaN, and a zero-change flag is set in the result.
C11_ZeroChangeFlag ==
    (pc = "done" /\ call.kind = "demographic" /\ ZeroTotalChange(call.df)) =>
        /\ ret.kind = "ok"
        /\ SharesAreZero(ret)
        /\ HasZeroChangeFlag(ret)

\* the weights of one period sum to exactly 0
ZeroWeightSum(df) ==
    \/ SumSeq(Column(df.rows, "w1")) = R(0)
    \/ SumSeq(Column(df.rows, "w2")) = R(0)

\* C12: when normalize is requested and the weights of one period sum to
\* exactly 0, analyze fails with an error instead of returning a result.
C12_ZeroWeightFails ==
    (/\ pc = "done" /\ call.kind = "demographic" /\ call.normalize
     /\ CompleteFrame(call.df) /\ ZeroWeightSum(call.df)) =>
        ret.kind = "error"

\* the denominator variables of a built-in formula
Denominators(formula_type) ==
    CASE formula_type = "ratio" -> {"B"}
      [] formula_type = "product" -> {"P"}
      [] formula_type = "demographic_dividend" -> {"A", "P"}
      [] OTHER -> {}

\* the denominators of the formula that are 0 in one of the two periods
ZeroDenominators(data, formula_type) ==
    {v \in Denominators(formula_type) : \E p \in PeriodSet : data[v][p] = R(0)}

\* C13: when a denominator of a built-in formula (B for ratio, P for product,
\* A or P for demographic_dividend) is 0 in either period, analyze fails with
\* an error that names an offending denominator variable and returns no result.
C13_ZeroDenominatorFails ==
    (/\ pc = "done" /\ call.kind = "mathematical"
     /\ CompleteNumbers(call.data, call.formula_type)
     /\ ZeroDenominators(call.data, call.formula_type) # {}) =>
        /\ ret.kind = "error"
        /\ "column" \in DOMAIN ret
        /\ ret.column \in ZeroDenominators(call.data, call.formula_type)

\* no call with a zero denominator fails with an error naming it (auxiliary:
\* what the code does in every such case)
ZeroDenominatorNeverNamed ==
    (/\ pc = "done" /\ call.kind = "mathematical"
     /\ CompleteNumbers(call.data, call.formula_type)
     /\ ZeroDenominators(call.data, call.formula_type) # {}) =>
        \/ ret.kind = "ok"
        \/ ret = ZeroDivisionError


(***************************************************************************)
(* Claims about the formula registry of MathematicalDecomposition           *)
(***************************************************************************)
\* a call of analyze returns or raises in this step
AnalyzeStep == pc = "ready" /\ call.kind = "mathematical" /\ pc' = "done"

UnknownFormula == call.formula_type \notin BuiltIn \cup DOMAIN custom_formulas

\* the formula analyze looks up: a built-in hides a custom formula of the same name
CalledFormula ==
    IF call.formula_type \in BuiltIn THEN FORMULAS[call.formula_type]
    ELSE custom_formulas[call.formula_type]

\* the variables of the formula without a value for one of the periods
Unvalued(data, variables) ==
    {var \in Range(variables) : var \notin DOMAIN data \/ PeriodSet \ DOMAIN data[var] # {}}

ValidationErrors ==
    {"missing_variable", "missing_period1", "missing_period2", "not_numeric1", "not_numeric2"}

\* C14: analyze raises an error, and returns no result, when the formula
\* name is neither a built-in nor a registered custom formula (the error
\* names the formula) and when a variable of the formula has no value for
\* one of the periods (the error is a data error naming a variable of the
\* formula); a call that fails leaves the registered formulas as they were.
C14_FailedAnalyze ==
    [][AnalyzeStep =>
        /\ UnknownFormula => ret' = ValueError("unknown_formula", call.formula_type)
        /\ (~UnknownFormula /\ Unvalued(call.data, CalledFormula.variables) # {}) =>
            /\ ret'.kind = "error" /\ ret'.type = "ValueError"
            /\ ret'.what \in ValidationErrors
            /\ ret'.column \in Range(CalledFormula.variables)
        /\ ret'.kind = "error" => custom_formulas' = custom_formulas]_vars

\* analyze has failed for a registered custom formula whose variable has no value
C14_Witness ==
    /\ pc = "done" /\ call.kind = "mathematical"
    /\ call.formula_type \in DOMAIN custom_formulas
    /\ Unvalued(call.data, custom_formulas[call.formula_type].variables) # {}
    /\ ret.kind = "error" /\ ret.type = "ValueError"


MathematicalDone == pc = "done" /\ call.kind = "mathematical"

AlphaDiffers == call.data["alpha"]["2015"] # call.data["alpha"]["2020"]

\* C15: for the cobb_douglas formula analyze raises an error whenever the
\* alpha given for period 1 differs from the alpha given for period 2; it
\* returns a result only when the two are the same.
C15_AlphaMustAgree ==
    (MathematicalDone /\ call.formula_type = "cobb_douglas" /\ AlphaDiffers) => ret.kind = "error"

\* whatever alpha is given for period 2, the result is computed with the
\* alpha of period 1
AlphaOfPeriod1 ==
    (MathematicalDone /\ call.formula_type = "cobb_douglas" /\ ret.kind = "ok") =>
        ret.alpha_value = call.data["alpha"]["2015"]


\* the formula being decomposed was registered by create_custom_formula and
\* the data hold a number for each of its variables in both periods
CustomWithValues ==
    /\ call.kind = "mathematical"
    /\ call.formula_type \in DOMAIN custom_formulas \ BuiltIn
    /\ Mathematical_validate_data(call.data, custom_formulas[call.formula_type].variables,
                                  Periods, 1).kind = "ok"

\* C16: once create_custom_formula has registered a formula, analyze called
\* with the returned id and a value for each extracted variable in both
\* periods returns a decomposition (computed by the generic midpoint rule).
C16_CustomDecomposed == (pc = "done" /\ CustomWithValues) => ret.kind = "ok"

\* every such call ends in the AttributeError of the missing method _decompose_generic
CustomNeverDecomposed ==
    (pc = "done" /\ CustomWithValues) => ret = AttributeError("_decompose_generic")

\* create_custom_formula returns the id under which the formula is then registered
CreateReturnsId ==
    (pc = "done" /\ call.kind = "custom" /\ ret.kind = "ok") =>
        /\ ret.formula_id \in DOMAIN custom_formulas
        /\ custom_formulas[ret.formula_id].expression = call.expression


\* the data hold a number for each variable of the built-in formula in both periods
BuiltInWithValues ==
    /\ call.kind = "mathematical"
    /\ call.formula_type \in BuiltIn
    /\ Mathematical_validate_data(call.data, FORMULAS[call.formula_type].variables,
                                  Periods, 1).kind = "ok"

\* C17: every built-in formula (ratio, product, product_simple,
\* demographic_dividend, cobb_douglas) can be decomposed: analyze with a
\* numeric value for each of its variables in both periods returns a result
\* holding the per-variable effects, and never fails.
C17_BuiltInsDecompose ==
    (pc = "done" /\ BuiltInWithValues) => (ret.kind = "ok" /\ "effects" \in DOMAIN ret)

\* product_simple always ends in the AttributeError of the missing method _decompose_product
ProductSimpleNeverDecomposed ==
    (pc = "done" /\ BuiltInWithValues /\ call.formula_type = "product_simple") =>
        ret = AttributeError("_decompose_product")

\* the other built-ins return their effects unless the mean of a denominator is 0
OtherBuiltInsDecompose ==
    (pc = "done" /\ BuiltInWithValues /\ call.formula_type # "product_simple") =>
        \/ ret.kind = "ok" /\ "effects" \in DOMAIN ret
        \/ ret = ZeroDivisionError


(***************************************************************************)
(* Claims about StructuralDecomposition.nested_decomposition                *)
(***************************************************************************)
StructuralDone == pc = "done" /\ call.kind = "structural"

\* the dataset has the period, outcome and grouping columns of the call
ColumnsPresent ==
    {"period", "y", "region"} \cup Range(call.secondary_groups) \subseteq call.df.columns

\* the tree holds one child result per category of the primary group and
\* secondary grouping column
OneChildPerPair(r) ==
    /\ DOMAIN r.levels = {"primary", "secondary"}
    /\ DOMAIN r.levels["secondary"] = Range(Column(call.df.rows, "region"))
    /\ \A category \in DOMAIN r.levels["secondary"] :
        DOMAIN r.levels["secondary"][category] = Range(call.secondary_groups)

\* C18: for a non-empty dataset nested_decomposition returns the result of
\* the primary level and exactly one child result for every pair of a
\* category of the primary group and a secondary grouping column.
C18_OneChildPerPair ==
    (StructuralDone /\ ColumnsPresent /\ Len(call.df.rows) > 0) =>
        (ret.kind = "ok" /\ OneChildPerPair(ret))

\* nested_decomposition never returns: the first store into
\* levels['secondary'] raises KeyError('secondary')
NestedNeverReturns ==
    StructuralDone =>
        /\ ret.kind = "error"
        /\ ColumnsPresent => ret = KeyError("secondary")


\* the periods of the call found in the period column
PeriodsFound == Range(Column(call.df.rows, "period")) \cap PeriodSet

\* the grouping columns of the call that the dataset does not have
AbsentGroupings == ({"region"} \cup Range(call.secondary_groups)) \ call.df.columns

\* C19: nested_decomposition fails with an error about the configuration
\* (one that names the period column or the absent grouping column) and
\* returns no tree when the period column holds fewer than 2 distinct
\* periods, so that one of the two period subsets is empty, or when a
\* grouping column is absent from the dataset.
C19_ConfigurationError ==
    (/\ StructuralDone
     /\ {"period", "y"} \subseteq call.df.columns
     /\ Cardinality(PeriodsFound) < 2 \/ AbsentGroupings # {}) =>
        (ret.kind = "error" /\ ret.key \in {"period"} \cup AbsentGroupings)

\* the number of periods is never looked at: with its columns present a
\* call ends the same way whatever the periods of its rows, and the
\* decomposition of the primary level went through with an empty period
\* subset, its overall change being NaN
PeriodsNeverChecked ==
    (StructuralDone /\ ColumnsPresent /\ Cardinality(PeriodsFound) < 2) =>
        /\ ret = KeyError("secondary")
        /\ _decompose_by_group(call.df.columns, Where(call.df.rows, "period", Periods[1]),
                               Where(call.df.rows, "period", Periods[2]), "y", "region").kind = "ok"
        /\ IsNaN(_calculate_global_decomposition(Where(call.df.rows, "period", Periods[1]),
                     Where(call.df.rows, "period", Periods[2]), "y", "region").delta_Y)

\* an absent primary grouping column ends the call with a KeyError naming it;
\* an absent secondary one does so only when the dataset has rows
AbsentGroupingNamed ==
    (StructuralDone /\ {"period", "y"} \subseteq call.df.columns /\ AbsentGroupings # {}) =>
        \/ ret.kind = "error" /\ ret.key \in AbsentGroupings
        \/ "region" \in call.df.columns /\ call.df.rows = <<>> /\ ret = KeyError("secondary")


(***************************************************************************)
(* Claims about the failures of RegressionDecomposition.oaxaca_blinder      *)
(***************************************************************************)
RegressionDone == pc = "done" /\ call.kind = "regression"

\* the OLS fit of group k raised and _run_regression took its except branch
FitFailed(k) == ~_run_regression(GroupData(call.df, k), call.df.dtype, Predictors).fitted

\* the design matrix [1, x] of group k has rank below 2: x does not vary
RankDeficient(k) ==
    /\ ~HasNaN(ColumnOf(GroupData(call.df, k), "x"))
    /\ \A i, j \in DOMAIN GroupData(call.df, k) :
        GroupData(call.df, k)[i].x = GroupData(call.df, k)[j].x

\* C20: no error inside the regression engine is downgraded to default
\* values: when the OLS fit of a group fails or its design matrix is
\* rank-deficient, oaxaca_blinder fails the call and returns no
\* decomposition built from substitute coefficients.
C20_NoSilentFallback ==
    (RegressionDone /\ \E k \in {1, 2} : FitFailed(k) \/ RankDeficient(k)) => ret.kind = "error"

\* the coefficients _run_regression hands back for group k
CoefOf(k) == _run_regression(GroupData(call.df, k), call.df.dtype, Predictors).coef

\* a method computed from the two group regressions alone, each of which
\* handed back an intercept and a slope
TwoCoefficients ==
    /\ call.method \in {"oaxaca", "oaxaca_reverse", "cotton"}
    /\ \A k \in {1, 2} : Len(CoefOf(k).values) = 2

\* a failed fit of a group does not fail the call: the decomposition is
\* returned with the substitute coefficients of the except branch
FallbackReturned ==
    (RegressionDone /\ TwoCoefficients /\ \E k \in {1, 2} : FitFailed(k)) =>
        /\ ret.kind = "ok"
        /\ ret.regression_results = [group1 |-> CoefOf(1), group2 |-> CoefOf(2)]

\* a rank-deficient design does not fail the call either
RankDeficientReturned ==
    (RegressionDone /\ TwoCoefficients /\ \E k \in {1, 2} : RankDeficient(k)) => ret.kind = "ok"


(***************************************************************************)
(* Claims about calls that follow one another                               *)
(***************************************************************************)
\* C21: analyze is pure and stateless: a call leaves the caller's dataset
\* as it was, also when normalize rescales the weights, and a second call
\* with the same arguments returns what the first returned.
C21_Pure ==
    [][/\ (call.kind = "demographic" /\ pc' # pc) => call' = call
       /\ (call.kind = "demographic" /\ pc = "done" /\ pc' = "again") => ret' = ret]_vars

\* analyze was called twice on weights that normalize rescales
C21_Witness ==
    /\ pc = "again" /\ call.kind = "demographic" /\ call.normalize /\ ret.kind = "ok"
    /\ OutOfTolerance(pandas_sum(Column(call.df.rows, "w1")))


\* both create_custom_formula calls have returned an id
BothRegistered == \A t \in Creators : pc[t] = "done" /\ ret[t].kind = "ok"

\* C22: registrations are serialized: when two create_custom_formula calls
\* without a name interleave on the same instance, between reading
\* len(custom_formulas) and storing the formula, both formulas end up
\* registered, under distinct ids.
C22_DistinctIds ==
    (BothRegistered /\ \A t \in Creators : call[t].name = "") =>
        /\ ret[1].formula_id # ret[2].formula_id
        /\ \A t \in Creators :
            /\ ret[t].formula_id \in DOMAIN custom_formulas
            /\ custom_formulas[ret[t].formula_id].expression = call[t].expression

\* two registrations without a name lose a formula exactly when they
\* interleave: each returned "custom_1" and one formula is registered
UnnamedInterleaved ==
    (BothRegistered /\ \A t \in Creators : call[t].name = "") =>
        \/ {ret[t].formula_id : t \in Creators} = {"custom_1", "custom_2"}
        \/ /\ \A t \in Creators : ret[t].formula_id = "custom_1"
           /\ DOMAIN custom_formulas = {"custom_1"}

\* a concurrent analyze sees the registry before or after a registration,
\* never a formula half stored: what it fetches is a formula as registered
AnalyzeSeesWholeFormulas ==
    \A id \in DOMAIN custom_formulas :
        \E t \in Creators :
            /\ pc[t] = "done" /\ ret[t] = [kind |-> "ok", formula_id |-> id]
            /\ custom_formulas[id].name = id
            /\ custom_formulas[id].expression = call[t].expression
            /\ custom_formulas[id].variables = FindAll(Split(call[t].expression, 1, <<>>)[2])


(***************************************************************************)
(* Claims about the session of the application                              *)
(***************************************************************************)
\* this step is an analysis button whose decomposer returned
AnalysisCompleted == call'.kind = "session" /\ call'.runs = call.runs + 1 /\ ret'.kind = "ok"

\* this step added the analysis it ran as the last entry of the history
SavedToHistory ==
    /\ Len(session_state'.analysis_history) = Len(session_state.analysis_history) + 1
    /\ session_state'.analysis_history
         = Append(session_state.analysis_history,
                  HistoryEntry(session_state'.analysis_type, session_state'.results))

\* C23: every analysis that completes successfully in the application
\* (demographic, mathematical with any formula, regression, structural) is
\* saved to the history: after the run, analysis_history holds a new entry
\* for it.
C23_EveryAnalysisSaved == [][AnalysisCompleted => SavedToHistory]_vars

\* the demographic, ratio and regression buttons save what they computed;
\* the product, dividend and simulation buttons leave the history as it was
SavingButtons ==
    [][AnalysisCompleted =>
        IF call'.handler \in {"demographic", "ratio", "regression"}
        THEN SavedToHistory
        ELSE /\ call'.handler \in {"product", "dividend", "simulation"}
             /\ session_state'.analysis_history = session_state.analysis_history
             /\ session_state'.results = ret']_vars

\* C26: reset_application resets the application completely: after it
\* runs, from any reachable session state, every session field has the
\* value it is given at start-up.
C26_ResetComplete == (call.kind = "session" /\ call.handler = "reset") => session_state = InitialSession

\* reset_application resets every field but the history, which it leaves as it was
ResetKeepsHistory ==
    [][(call'.kind = "session" /\ call'.handler = "reset") =>
        session_state' = [InitialSession EXCEPT
                             !.analysis_history = session_state.analysis_history]]_vars


(***************************************************************************)
(* Claims about the levels of the hierarchical decomposition                *)
(***************************************************************************)
LevelDone == pc = "done" /\ call.kind = "level" /\ ret.kind = "ok"

\* the rows of period k of the call
PeriodRows(k) == Where(call.df.rows, "period", Periods[k])

\* the categories found in period k
CategoriesOf(k) == Range(Column(PeriodRows(k), "region"))

\* the mean of category c in period k, or substitute when period k has no row of c
CategoryMean(k, c, substitute) ==
    IF c \in CategoriesOf(k) THEN Mean(Column(Where(PeriodRows(k), "region", c), "y"))
    ELSE substitute

\* the share of the rows of period k that category c holds
CategoryShare(k, c) == RDiv(R(Len(Where(PeriodRows(k), "region", c))), R(Len(PeriodRows(k))))

\* the sum over the categories cs of mean value times change of share, the
\* mean of an absent category being s1 in period 1 and s2 in period 2
RECURSIVE CompositionWith(_, _, _)
CompositionWith(cs, s1, s2) ==
    IF cs = {} THEN R(0)
    ELSE LET c == CHOOSE x \in cs : TRUE
         IN  RAdd(CompositionWith(cs \ {c}, s1, s2),
                  RMul(Half(RAdd(CategoryMean(1, c, s1), CategoryMean(2, c, s2))),
                       RSub(CategoryShare(2, c), CategoryShare(1, c))))

BothPeriods == Len(PeriodRows(1)) > 0 /\ Len(PeriodRows(2)) > 0

\* C24: in the decomposition of a level, a category that is absent from one
\* period gets, as its mean for that period, the overall mean of that same
\* period (absent in period 1: the period-1 overall mean; absent in period
\* 2: the period-2 overall mean).
C24_AbsentCategory ==
    (LevelDone /\ BothPeriods) =>
        ret._global.composition_effect
            = CompositionWith(CategoriesOf(1) \cup CategoriesOf(2), ret._global.Y1, ret._global.Y2)

\* C24 as stated: the category absent from a period gets the overall mean
\* of the opposite period.
C24_AbsentCategoryAsStated ==
    (LevelDone /\ BothPeriods) =>
        ret._global.composition_effect
            = CompositionWith(CategoriesOf(1) \cup CategoriesOf(2), ret._global.Y2, ret._global.Y1)

\* a level with a category absent from period 1, where the two readings differ
C24_Witness ==
    /\ LevelDone /\ BothPeriods
    /\ CategoriesOf(2) \ CategoriesOf(1) # {}
    /\ CompositionWith(CategoriesOf(1) \cup CategoriesOf(2), ret._global.Y1, ret._global.Y2)
         # CompositionWith(CategoriesOf(1) \cup CategoriesOf(2), ret._global.Y2, ret._global.Y1)


Level64Done == pc = "done" /\ call.kind = "level64"

\* the rows of period k of a call in binary64
PeriodRows64(k) == Where(call.df.rows, "period", Periods[k])

BothPeriods64 == Len(PeriodRows64(1)) > 0 /\ Len(PeriodRows64(2)) > 0

\* a category with rows in exactly one of the two periods
OnePeriodOnly64 ==
    \E c \in Range(Column(call.df.rows, "region")) :
        (c \in Range(Column(PeriodRows64(1), "region"))) # (c \in Range(Column(PeriodRows64(2), "region")))

\* the two effects of a level add up to the change of the overall mean in exact arithmetic
LevelAdditivityExact ==
    (LevelDone /\ BothPeriods) =>
        RAdd(ret._global.composition_effect, ret._global.behavior_effect) = ret._global.delta_Y

DetailedPredictors ==
    [i \in DOMAIN ret.detailed_contributions |-> ret.detailed_contributions[i].predictor]

\* C25: oaxaca_blinder computes the detailed contributions only for the
\* method 'oaxaca': detailed_contributions then has exactly one entry per
\* predictor, and it is empty for every other method.
C25_DetailedOnlyForOaxaca ==
    RegressionReturned =>
        IF call.method = "oaxaca" THEN DetailedPredictors = Predictors
        ELSE ret.detailed_contributions = <<>>

\* a call with method 'oaxaca' has returned an entry for the predictor, with
\* a part of the difference explained by it
C25_Witness ==
    /\ RegressionReturned
    /\ call.method = "oaxaca"
    /\ Len(ret.detailed_contributions) = Len(Predictors)
    /\ NonZero(ret.detailed_contributions[1].explained)


(***************************************************************************)
(* Claims about the history of the session                                  *)
(***************************************************************************)
\* the entries of all the analyses saved so far, in the order saved
EntriesSaved ==
    [i \in DOMAIN call.saved |-> HistoryEntry(call.saved[i].analysis_type, call.saved[i].results)]

\* min(n, 10)
Kept(n) == IF n < 10 THEN n ELSE 10

\* C27: after any sequence of n calls of save_to_history the history holds
\* at most 10 entries: the min(n, 10) most recent ones, in the order saved.
C27_LastTenKept ==
    call.kind = "history" =>
        /\ Len(session_state.analysis_history) <= 10
        /\ session_state.analysis_history
             = SubSeq(EntriesSaved, Len(EntriesSaved) - Kept(Len(EntriesSaved)) + 1, Len(EntriesSaved))

\* more than 10 analyses were saved, and the oldest one, which is dropped,
\* differs from the oldest one kept
C27_Witness ==
    /\ call.kind = "history"
    /\ Len(call.saved) > 10
    /\ Len(session_state.analysis_history) = 10
    /\ EntriesSaved[1] # session_state.analysis_history[1]


(***************************************************************************)
(* Claims about a decomposer that raises in the session                     *)
(***************************************************************************)
\* this step is an analysis button whose decomposer raised
AnalysisFailed == call'.kind = "session" /\ call'.runs = call.runs + 1 /\ ret'.kind = "error"

\* the analysis_type each analysis button stores
TypeStored ==
    [demographic |-> "demographic", ratio |-> "mathematical", product |-> "mathematical",
     dividend |-> "mathematical", regression |-> "regression", nested |-> "structural",
     simulation |-> "structural"]

\* this step left results, analysis_type and analysis_history as they were
SessionKept ==
    /\ session_state'.results = session_state.results
    /\ session_state'.analysis_type = session_state.analysis_type
    /\ session_state'.analysis_history = session_state.analysis_history

\* this step stored the results of the analysis it ran together with its type
StoredTogether ==
    /\ AnalysisCompleted
    /\ session_state'.results = ret'
    /\ session_state'.analysis_type = TypeStored[call'.handler]

\* this step is the reset, which clears results and analysis_type together
ClearedTogether ==
    /\ call'.handler = "reset"
    /\ session_state'.results = <<>>
    /\ session_state'.analysis_type = None

\* C28: when a decomposer raises during an analysis started from a page,
\* results, analysis_type and analysis_history stay as they were; results
\* and analysis_type are only ever updated together.
C28_FailureKeepsSession ==
    [][/\ AnalysisFailed => SessionKept
       /\ (call'.kind = "session" /\ (session_state'.results # session_state.results
                                        \/ session_state'.analysis_type # session_state.analysis_type))
            => (StoredTogether \/ ClearedTogether)]_vars

\* a decomposer has raised after an analysis of another page had succeeded:
\* the results, the type and the history of that analysis are still there
C28_Witness ==
    /\ call.kind = "session"
    /\ call.handler \in DOMAIN TypeStored
    /\ ret.kind = "error"
    /\ session_state.results # <<>>
    /\ session_state.analysis_type # None
    /\ session_state.analysis_type # TypeStored[call.handler]
    /\ Len(session_state.analysis_history) > 0


(***************************************************************************)
(* Claims about the ids create_custom_formula generates                     *)
(***************************************************************************)
\* this step is a create_custom_formula call without a name that returned an id
UnnamedRegistered ==
    /\ pc = "ready" /\ call.kind = "custom" /\ call.name = ""
    /\ pc' = "done" /\ ret'.kind = "ok"

\* C29: create_custom_formula called without a name never overwrites a
\* registered custom formula: the id it generates is not yet a key of
\* custom_formulas, and the call increases the number of registered custom
\* formulas by exactly one.
C29_UnnamedNeverOverwrites ==
    [][UnnamedRegistered =>
        /\ ~(ret'.formula_id \in DOMAIN custom_formulas)
        /\ Cardinality(DOMAIN custom_formulas') = Cardinality(DOMAIN custom_formulas) + 1]_vars

\* as long as no formula was registered under a name of the form custom_<n>
\* (custom_2 is the one the calls use), an unnamed call adds a formula
UnnamedAddsAmongOtherNames ==
    [][(UnnamedRegistered /\ ~("custom_2" \in DOMAIN custom_formulas)) =>
        /\ ~(ret'.formula_id \in DOMAIN custom_formulas)
        /\ Cardinality(DOMAIN custom_formulas') = Cardinality(DOMAIN custom_formulas) + 1]_vars

====
